---- MODULE Spec2Model ----
(***************************************************************************)
(* A model of the xStocks market-data service                              *)
(* (intel-microservice/python-yfinance-service/main.py):                   *)
(*   - the cache layer (get_cache / set_cache over Redis and the           *)
(*     in-process _memory_cache),                                          *)
(*   - the throttled retry path (smart_rate_limit / fetch_with_retry),     *)
(*   - the batch quote handler (get_batch_realtime_data_v2),               *)
(*   - the backtesting handler (backtest_strategy) and its strategies,     *)
(*   - request routing and the chart and options handlers,                 *)
(*   - the option Greeks, the portfolio analytics and the Black-Litterman  *)
(*     view matrices,                                                      *)
(*   - the chunked fetch loops and the unusual-activity scans,             *)
(*   - the period cache of stock data and the client rate limiter.         *)
(* Each component has its own specification over the shared variables.     *)
(***************************************************************************)
EXTENDS Integers, Sequences, FiniteSets, TLC

VARIABLES
    now,            \* time.time(), in whole seconds
    redis_client,   \* "None" or "client": the module-level redis_client
    redis_up,       \* whether a call on the Redis client currently succeeds
    ever_up,        \* history: the shared backend could have served some call
    redis_store,    \* the Redis server: key -> [text, expires_at]
    memory_cache,   \* _memory_cache: key -> [data, expiration]
    call,           \* the most recent get_cache / set_cache call and its outcome
    last_set,       \* history: key -> the most recent set_cache for that key
    last_request_time,  \* the module-level last_request_time
    request_count,      \* the module-level request_count
    rl_pc,          \* caller -> where it stands in fetch_with_retry
    rl_attempt,     \* caller -> the loop variable "attempt"
    rl_wake,        \* caller -> the time its pending asyncio.sleep ends
    rl_hist,        \* history: caller -> its invocations and sleeps so far
    rl_result,      \* caller -> what fetch_with_retry returned or raised
    rl_returns,     \* history: the returns of smart_rate_limit so far
    batch_symbols,  \* xstock_symbols of the batch request being served
    batch_pc,       \* where get_batch_realtime_data_v2 stands
    task_pc,        \* per fetch_one_symbol task: "pending", "awaiting", "done"
    task_result,    \* per task: the dict it returned
    task_order,     \* history: the task indices in order of completion
    batch_response, \* the response of the batch handler
    bt_request,     \* the body of the POST /api/quant/backtest request
    bt_provider,    \* what the data provider holds: symbol -> history
    bt_run,         \* 1 or 2: the same request is served twice
    bt_first,       \* history: what the first run ended with
    bt_pc,          \* where backtest_strategy stands
    bt_fetch,       \* per fetch_full_history task: "pending" or "done"
    bt_order,       \* history: the task indices in order of completion
    benchmark_data, \* benchmark_data
    hist_data_list, \* hist_data_list, filled as the tasks complete
    stock_data,     \* stock_data: the (symbol, history) pairs in dict order
    sorted_dates,   \* sorted_dates
    benchmark_shares,   \* benchmark_shares, or not bound at all
    bt_i,           \* the loop index i
    cash,           \* cash
    positions,      \* positions: symbol -> shares held
    trade_log,      \* trade_log
    portfolio_values,       \* portfolio_values
    benchmark_value_series, \* benchmark_value_series
    bt_response,    \* the response of the backtest handler
    http_request,   \* the request being served: method, path, query
    yf_data,        \* what the data provider answers to that request
    http_pc,        \* where the handler serving it stands
    http_locals,    \* the local variables of that handler
    http_response,  \* the response, and which handler produced it
    py_call,        \* a call of a library function: name, arguments, outcome
    scanning_in_progress,   \* the module-level _scanning_in_progress
    scan_pc,        \* per scheduled scan_unusual_activity_background: where it stands
    quick_pc,       \* per request of /api/options/unusual-activity: where it stands
    fetch_chunk,    \* per chunked fetch loop: the chunk being gathered (0: none yet)
    fetch_pending,  \* per chunked fetch loop: the fetches started and not finished
    uoa_cache,      \* the cache entry under "unusual_options_activity"
    stock_data_cache,   \* _stock_data_cache: period -> [data, timestamp]
    cache_writes,   \* history: the number of writes into _stock_data_cache
    mw_requests,    \* ClientRateLimitMiddleware.requests: ip -> [timestamps]
    mw_admitted,    \* history: ip -> the times of the requests forwarded
    mw_last         \* the most recent request through the middleware

cacheVars == <<now, redis_client, redis_up, ever_up, redis_store, memory_cache,
               call, last_set>>

rlVars == <<last_request_time, request_count, rl_pc, rl_attempt, rl_wake,
            rl_hist, rl_result, rl_returns>>

batchVars == <<batch_symbols, batch_pc, task_pc, task_result,
               task_order, batch_response>>

btInput == <<bt_request, bt_provider>>
btVars == <<bt_run, bt_first, bt_pc, bt_fetch, bt_order, benchmark_data,
            hist_data_list, stock_data, sorted_dates, benchmark_shares, bt_i, cash,
            positions, trade_log, portfolio_values, benchmark_value_series,
            bt_response>>

httpVars == <<http_request, yf_data, http_pc, http_locals, http_response>>
pyVars == <<py_call>>

scanVars == <<scanning_in_progress, scan_pc, quick_pc, fetch_chunk, fetch_pending,
              uoa_cache>>
sectorVars == <<stock_data_cache, cache_writes>>
mwVars == <<mw_requests, mw_admitted, mw_last>>
svcVars == <<scanVars, sectorVars, mwVars>>
vars == <<cacheVars, rlVars, batchVars, btInput, btVars, httpVars, pyVars, svcVars>>

----------------------------------------------------------------------------
(* Bounds of the model *)

MaxTime == 3
MaxTtl == 2
MaxClock == 50
MaxBatch == 3
MaxDate == 51

----------------------------------------------------------------------------
(* Python values and their JSON text *)

PyNone == [type |-> "None", val |-> <<>>]
PyInt(n) == [type |-> "int", val |-> <<n>>]
PyList(s) == [type |-> "list", val |-> s]
PyTuple(s) == [type |-> "tuple", val |-> s]
\* an object json does not know (a pydantic model, a datetime); val is its str()
PyObject(s) == [type |-> "object", val |-> s]
\* a container that holds itself: json.dumps raises ValueError on it
PyCyclic == [type |-> "cyclic", val |-> <<>>]

CacheKeys == {<<"k1">>}
CacheValues == {PyInt(1), PyList(<<1, 2>>), PyTuple(<<1, 2>>), PyObject(<<7>>), PyCyclic}
Ttls == 1..MaxTtl

\* json.dumps(data, default=str) raises on a circular reference
Serializable(data) == data.type # "cyclic"

\* json.dumps(data, default=str): the JSON text, by its kind and body
json_dumps(data) ==
    CASE data.type = "int" -> [kind |-> "number", body |-> data.val]
      [] data.type = "str" -> [kind |-> "string", body |-> data.val]
      [] data.type = "list" -> [kind |-> "array", body |-> data.val]
      [] data.type = "tuple" -> [kind |-> "array", body |-> data.val]
      [] data.type = "object" -> [kind |-> "string", body |-> data.val]
      [] OTHER -> [kind |-> "null", body |-> <<>>]

\* json.loads(text)
json_loads(text) ==
    CASE text.kind = "number" -> [type |-> "int", val |-> text.body]
      [] text.kind = "string" -> [type |-> "str", val |-> text.body]
      [] text.kind = "array" -> [type |-> "list", val |-> text.body]
      [] OTHER -> PyNone

JsonRoundTrip(data) == json_loads(json_dumps(data))

\* the record of a cache call, before any call has been made
NoCall ==
    [op |-> "none", key |-> <<>>, data |-> PyNone, ttl |-> 0,
     path |-> "none", value |-> PyNone, raised |-> FALSE,
     follows_set |-> FALSE, set_path |-> "none", mem_before |-> PyNone]

----------------------------------------------------------------------------
(* Each component before it has done anything *)

\* the concurrent callers of fetch_with_retry
Callers == {"c1", "c2"}

NoHist == [invocations |-> <<>>, passes |-> 0, backoffs |-> <<>>]
NoResult == [kind |-> "none", of |-> 0]

\* the state of the retry path before any caller has entered it
RlIdle ==
    /\ last_request_time = 0
    /\ request_count = 0
    /\ rl_pc = [c \in Callers |-> "idle"]
    /\ rl_attempt = [c \in Callers |-> 0]
    /\ rl_wake = [c \in Callers |-> 0]
    /\ rl_hist = [c \in Callers |-> NoHist]
    /\ rl_result = [c \in Callers |-> NoResult]
    /\ rl_returns = <<>>

NoTaskResult == [symbol |-> "", kind |-> "none", detail |-> ""]
NoResponse == [status |-> 0, body |-> <<>>, cached |-> FALSE]

\* the state of the batch handler before any request
BatchIdle ==
    /\ batch_symbols = <<>>
    /\ batch_pc = "idle"
    /\ task_pc = <<>>
    /\ task_result = <<>>
    /\ task_order = <<>>
    /\ batch_response = NoResponse

\* a history the provider does not have (fetch_full_history returns None)
NoHistory == [present |-> FALSE, first |-> 1, last |-> 0, pattern |-> "flat"]
NoRequest == [symbols |-> <<>>, weights |-> <<>>, strategy |-> "", lookback |-> 0,
              capital |-> 0, benchmark |-> ""]
NoBtResponse == [status |-> 0, detail |-> "", finalValue |-> 0]
NoRun == [status |-> 0, trade_log |-> <<>>, finalValue |-> 0, order |-> <<>>]
Unbound == [bound |-> FALSE, per |-> 0]

\* the state of the backtest handler before it has received the request
BtIdle ==
    /\ bt_run = 1
    /\ bt_first = NoRun
    /\ bt_pc = "idle"
    /\ bt_fetch = <<>>
    /\ bt_order = <<>>
    /\ benchmark_data = NoHistory
    /\ hist_data_list = <<>>
    /\ stock_data = <<>>
    /\ sorted_dates = <<>>
    /\ benchmark_shares = Unbound
    /\ bt_i = 0
    /\ cash = 0
    /\ positions = <<>>
    /\ trade_log = <<>>
    /\ portfolio_values = <<>>
    /\ benchmark_value_series = <<>>
    /\ bt_response = NoBtResponse

\* no request is being served
NoHttpRequest == [method |-> "", path |-> <<>>, timeframe |-> "", expiration |-> ""]
NoLocals == [param |-> "", cache_key |-> <<>>]
NoHttpResponse == [status |-> 0, handler |-> "", message |-> <<>>, period |-> "",
                   interval |-> "", cached |-> FALSE]
NoYfData == [hist_empty |-> FALSE, expirations |-> <<>>, chain_fails |-> FALSE]
HttpIdle ==
    /\ http_request = NoHttpRequest
    /\ yf_data = NoYfData
    /\ http_pc = "idle"
    /\ http_locals = NoLocals
    /\ http_response = NoHttpResponse

\* no library function has been called
NoPyCall == [fn |-> "", args |-> <<>>, outcome |-> "", value |-> <<>>]
PyIdle == py_call = NoPyCall

\* the chunked fetch loops: the heatmap handler and the scans by the request
\* that scheduled them
Requests == {"r1", "r2"}
Loops == {"heatmap"} \cup Requests
NoEntry == [status |-> "none", writer |-> ""]
\* no unusual-activity request has arrived and nothing is cached
ScanIdle ==
    /\ scanning_in_progress = FALSE
    /\ scan_pc = [r \in Requests |-> "none"]
    /\ quick_pc = [r \in Requests |-> "idle"]
    /\ fetch_chunk = [l \in Loops |-> 0]
    /\ fetch_pending = [l \in Loops |-> {}]
    /\ uoa_cache = NoEntry

\* the periods of _stock_data_cache in the model
Periods == {"1d", "1w"}
\* "'1d': {'data': None, 'timestamp': 0}"
EmptyEntry == [data |-> <<>>, cached |-> FALSE, timestamp |-> 0]
SectorIdle ==
    /\ stock_data_cache = [p \in Periods |-> EmptyEntry]
    /\ cache_writes = 0

ClientIps == {"ip1", "ip2"}
NoMwRequest == [ip |-> "", status |-> 0, forwarded |-> FALSE, at |-> 0]
\* "self.requests = {}"
MwIdle ==
    /\ mw_requests = <<>>
    /\ mw_admitted = [ip \in ClientIps |-> <<>>]
    /\ mw_last = NoMwRequest

SvcIdle == ScanIdle /\ SectorIdle /\ MwIdle

\* the cache layer with nothing stored, the clock at t0
CacheIdle(t0) ==
    /\ now = t0
    /\ redis_store = <<>>
    /\ memory_cache = <<>>
    /\ call = NoCall
    /\ last_set = <<>>

----------------------------------------------------------------------------
(* The two backends *)

\* redis_client.get(key): the text, or nil once the key's TTL has run out
RedisHas(store, key, t) == key \in DOMAIN store /\ t < store[key].expires_at

\* redis_client.setex(key, ttl, text)
RedisSetex(store, key, ttl, text, t) ==
    [k \in DOMAIN store \cup {key} |->
        IF k = key THEN [text |-> text, expires_at |-> t + ttl] ELSE store[k]]

\* get_cache: "if time.time() < expiration"
MemFreshLate(expiration, t) == t <= expiration
MemFresh(expiration, t) == t < expiration

\* set_cache: "_memory_cache[key] = (data, expiration)"
MemoryPut(mem, key, data, expiration) ==
    [k \in DOMAIN mem \cup {key} |->
        IF k = key THEN [data |-> data, expiration |-> expiration] ELSE mem[k]]

\* get_cache: "del _memory_cache[key]"
MemoryDel(mem, key) == [k \in DOMAIN mem \ {key} |-> mem[k]]

\* the bare "except: pass" around each Redis call swallows every exception
SwallowedConnectionOnly(exc) == exc = "ConnectionError"
Swallowed(exc) == TRUE

----------------------------------------------------------------------------
(* The throttled retry path: smart_rate_limit and fetch_with_retry *)

RATE_LIMIT_DELAY == 15
MAX_RETRIES == 2
BASE_BACKOFF == 15
\* random.uniform(5.0, 10.0) and random.uniform(3, 8): the two ends of each
JitterMin == 5
JitterMax == 10
BackoffJitterMin == 3
BackoffJitterMax == 8

\* time.time() is far above last_request_time = 0 when the process starts
StartTime == RATE_LIMIT_DELAY + JitterMax

Pow2(n) == IF n = 0 THEN 1 ELSE 2

\* smart_rate_limit: "required_delay = RATE_LIMIT_DELAY + jitter"
required_delay(jitter) == RATE_LIMIT_DELAY + jitter

\* smart_rate_limit: "if time_since_last_request < required_delay"
MustWait(since, required) == since < required

\* fetch_with_retry: "backoff = BASE_BACKOFF * (2 ** attempt) + random.uniform(3, 8)"
backoff(attempt, jitter) == BASE_BACKOFF * Pow2(attempt) + jitter

\* fetch_with_retry: "if attempt < MAX_RETRIES - 1"
RetriesLeftAlways(attempt) == TRUE
RetriesLeft(attempt) == attempt < MAX_RETRIES - 1

\* smart_rate_limit returns to fetch_with_retry, which awaits func at once:
\* "last_request_time = time.time(); request_count += 1" then "await func(...)"
RlReturn(c) ==
    /\ last_request_time' = now
    /\ request_count' = request_count + 1
    /\ rl_pc' = [rl_pc EXCEPT ![c] = "invoking"]
    /\ rl_hist' = [rl_hist EXCEPT ![c].passes = @ + 1]
    /\ rl_returns' = Append(rl_returns, now)

\* the loop body from "await smart_rate_limit()" to its first suspension:
\* either the sleep inside smart_rate_limit, or the awaited func
RlEnter(c, jitter) ==
    LET time_since_last_request == now - last_request_time
        required == required_delay(jitter)
    IN  IF MustWait(time_since_last_request, required)
        THEN /\ rl_pc' = [rl_pc EXCEPT ![c] = "rl_sleep"]
             /\ rl_wake' = [rl_wake EXCEPT ![c] = now + (required - time_since_last_request)]
             /\ UNCHANGED <<last_request_time, request_count, rl_hist, rl_returns>>
        ELSE /\ RlReturn(c)
             /\ UNCHANGED rl_wake

\* a caller calls fetch_with_retry: "for attempt in range(MAX_RETRIES)"
FetchWithRetry(c) ==
    /\ rl_pc[c] = "idle"
    /\ \E jitter \in {JitterMin, JitterMax} : RlEnter(c, jitter)
    /\ UNCHANGED <<rl_attempt, rl_result, now>>
    /\ UNCHANGED <<redis_client, redis_up, ever_up, redis_store, memory_cache, call, last_set>>
    /\ UNCHANGED <<batchVars, btInput, httpVars, pyVars, svcVars, btVars>>

\* the asyncio.sleep inside smart_rate_limit ends
RlWake(c) ==
    /\ rl_pc[c] = "rl_sleep"
    /\ now >= rl_wake[c]
    /\ RlReturn(c)
    /\ UNCHANGED <<rl_attempt, rl_wake, rl_result, now>>
    /\ UNCHANGED <<redis_client, redis_up, ever_up, redis_store, memory_cache, call, last_set>>
    /\ UNCHANGED <<batchVars, btInput, httpVars, pyVars, svcVars, btVars>>

\* the awaited func returns a value: "return await func(*args, **kwargs)"
FuncReturns(c) ==
    /\ rl_pc[c] = "invoking"
    /\ rl_hist' = [rl_hist EXCEPT ![c].invocations = Append(@, "ok")]
    /\ rl_pc' = [rl_pc EXCEPT ![c] = "returned"]
    /\ rl_result' = [rl_result EXCEPT ![c] =
                        [kind |-> "return", of |-> Len(rl_hist[c].invocations) + 1]]
    /\ UNCHANGED <<last_request_time, request_count, rl_attempt, rl_wake, rl_returns, now>>
    /\ UNCHANGED <<redis_client, redis_up, ever_up, redis_store, memory_cache, call, last_set>>
    /\ UNCHANGED <<batchVars, btInput, httpVars, pyVars, svcVars, btVars>>

\* the awaited func raises: "except Exception as e"
FuncRaises(c, jitter) ==
    /\ rl_pc[c] = "invoking"
    /\ IF RetriesLeft(rl_attempt[c])
       THEN /\ rl_pc' = [rl_pc EXCEPT ![c] = "backoff"]
            /\ rl_wake' = [rl_wake EXCEPT ![c] = now + backoff(rl_attempt[c], jitter)]
            /\ rl_hist' = [rl_hist EXCEPT
                             ![c].invocations = Append(@, "fail"),
                             ![c].backoffs = Append(@, backoff(rl_attempt[c], jitter))]
            /\ UNCHANGED rl_result
       ELSE /\ rl_pc' = [rl_pc EXCEPT ![c] = "raised"]
            /\ rl_hist' = [rl_hist EXCEPT ![c].invocations = Append(@, "fail")]
            /\ rl_result' = [rl_result EXCEPT ![c] =
                               [kind |-> "raise", of |-> Len(rl_hist[c].invocations) + 1]]
            /\ UNCHANGED rl_wake
    /\ UNCHANGED <<last_request_time, request_count, rl_attempt, rl_returns, now>>
    /\ UNCHANGED <<redis_client, redis_up, ever_up, redis_store, memory_cache, call, last_set>>
    /\ UNCHANGED <<batchVars, btInput, httpVars, pyVars, svcVars, btVars>>

\* the backoff sleep ends: "continue", the next iteration of the loop, or
\* the end of the loop (fetch_with_retry then returns None)
BackoffWake(c) ==
    /\ rl_pc[c] = "backoff"
    /\ now >= rl_wake[c]
    /\ rl_attempt' = [rl_attempt EXCEPT ![c] = @ + 1]
    /\ IF rl_attempt[c] + 1 < MAX_RETRIES
       THEN /\ \E jitter \in {JitterMin, JitterMax} : RlEnter(c, jitter)
            /\ UNCHANGED rl_result
       ELSE /\ rl_pc' = [rl_pc EXCEPT ![c] = "returned"]
            /\ rl_result' = [rl_result EXCEPT ![c] = [kind |-> "return", of |-> 0]]
            /\ UNCHANGED <<last_request_time, request_count, rl_wake, rl_hist, rl_returns>>
    /\ UNCHANGED now
    /\ UNCHANGED <<redis_client, redis_up, ever_up, redis_store, memory_cache, call, last_set>>
    /\ UNCHANGED <<batchVars, btInput, httpVars, pyVars, svcVars, btVars>>

\* a sleep that is due ends before the clock moves on
SleepDue(c) == rl_pc[c] \in {"rl_sleep", "backoff"} /\ rl_wake[c] <= now

RlTick ==
    /\ now < MaxClock
    /\ \A c \in Callers : ~SleepDue(c)
    /\ now' = now + 1
    /\ UNCHANGED rlVars
    /\ UNCHANGED <<redis_client, redis_up, ever_up, redis_store, memory_cache, call, last_set>>
    /\ UNCHANGED <<batchVars, btInput, httpVars, pyVars, svcVars, btVars>>

RetryInit ==
    /\ now = StartTime
    /\ redis_client = "None"
    /\ redis_up = FALSE
    /\ ever_up = FALSE
    /\ redis_store = <<>>
    /\ memory_cache = <<>>
    /\ call = NoCall
    /\ last_set = <<>>
    /\ RlIdle
    /\ BatchIdle
    /\ BtIdle
    /\ HttpIdle
    /\ PyIdle
    /\ SvcIdle
    /\ bt_request = NoRequest
    /\ bt_provider = <<>>

RetryNext ==
    \/ RlTick
    \/ \E c \in Callers : FetchWithRetry(c)
    \/ \E c \in Callers : RlWake(c)
    \/ \E c \in Callers : FuncReturns(c)
    \/ \E c \in Callers, jitter \in {BackoffJitterMin, BackoffJitterMax} : FuncRaises(c, jitter)
    \/ \E c \in Callers : BackoffWake(c)

SpecRetry == RetryInit /\ [][RetryNext]_vars

----------------------------------------------------------------------------
(* get_cache and set_cache as functions of the state they read *)

\* what the Redis branch of set_cache does: "skipped" (no client), "stored",
\* or the exception raised inside the try block
SetAttempt(client, up, data) ==
    IF client = "None" THEN "skipped"
    ELSE IF ~Serializable(data) THEN "ValueError"
    ELSE IF ~up THEN "ConnectionError"
    ELSE "stored"

\* what the Redis branch of get_cache does: "skipped", "hit", "nil" (no such
\* key), or the exception raised inside the try block
GetAttempt(client, up, store, key, t) ==
    IF client = "None" THEN "skipped"
    ELSE IF ~up THEN "ConnectionError"
    ELSE IF RedisHas(store, key, t) THEN "hit"
    ELSE "nil"

IsException(attempt) == attempt \in {"ValueError", "ConnectionError"}

\* the in-process branch of get_cache: [value, mem]
MemoryLookup(mem, key, t) ==
    IF key \in DOMAIN mem
    THEN IF MemFresh(mem[key].expiration, t)
         THEN [value |-> mem[key].data, mem |-> mem]
         ELSE [value |-> PyNone, mem |-> MemoryDel(mem, key)]
    ELSE [value |-> PyNone, mem |-> mem]

\* get_cache(key): [value, path, raised, mem]
get_cache(client, up, store, mem, key, t) ==
    LET attempt == GetAttempt(client, up, store, key, t)
        look == MemoryLookup(mem, key, t)
    IN  IF attempt = "hit"
        THEN [value |-> json_loads(store[key].text), path |-> "redis",
              raised |-> FALSE, mem |-> mem]
        ELSE IF IsException(attempt) /\ ~Swallowed(attempt)
        THEN [value |-> PyNone, path |-> "raised", raised |-> TRUE, mem |-> mem]
        ELSE [value |-> look.value, path |-> "memory", raised |-> FALSE,
              mem |-> look.mem]

\* set_cache(key, data, ttl_seconds): [path, raised, store, mem]
set_cache(client, up, store, mem, key, data, ttl, t) ==
    LET attempt == SetAttempt(client, up, data)
    IN  IF attempt = "stored"
        THEN [path |-> "redis", raised |-> FALSE,
              store |-> RedisSetex(store, key, ttl, json_dumps(data), t), mem |-> mem]
        ELSE IF IsException(attempt) /\ ~Swallowed(attempt)
        THEN [path |-> "raised", raised |-> TRUE, store |-> store, mem |-> mem]
        ELSE [path |-> "memory", raised |-> FALSE, store |-> store,
              mem |-> MemoryPut(mem, key, data, t + ttl)]

----------------------------------------------------------------------------
(* The batch quote handler: get_batch_realtime_data_v2 *)

\* STOCK_SYMBOLS, and a symbol it does not map
STOCK_SYMBOLS ==
    [s \in {"AAPLx", "TSLAx", "SPYx"} |->
        CASE s = "AAPLx" -> "AAPL" [] s = "TSLAx" -> "TSLA" [] OTHER -> "SPY"]
RequestSymbols == {"AAPLx", "TSLAx", "ZZZx"}

\* the order of Python's string comparison on the symbols above
SymbolRank(s) == CASE s = "AAPLx" -> 1 [] s = "TSLAx" -> 2 [] OTHER -> 3

RECURSIVE Insert(_, _)
Insert(sym, sorted_seq) ==
    IF sorted_seq = <<>> THEN <<sym>>
    ELSE IF SymbolRank(sym) <= SymbolRank(Head(sorted_seq))
         THEN <<sym>> \o sorted_seq
         ELSE <<Head(sorted_seq)>> \o Insert(sym, Tail(sorted_seq))

\* sorted(xstock_symbols)
RECURSIVE SortSymbols(_)
SortSymbols(symbols) ==
    IF symbols = <<>> THEN <<>> ELSE Insert(Head(symbols), SortSymbols(Tail(symbols)))

\* cache_key = f"batch_v2_{'_'.join(sorted(xstock_symbols))}"
BatchCacheKey(symbols) == <<"batch_v2">> \o SortSymbols(symbols)

\* "if cached:": None and the empty list are falsy
Truthy(value) == value # PyNone /\ value.val # <<>>

\* what a provider call can do: return a complete info bag, return one whose
\* field is None (float(None) raises TypeError), or raise
ProviderOutcomes == {"ok", "bad_field", "exception"}

\* fetch_one_symbol: the dict returned for the symbol, by outcome
\* ("unmapped": STOCK_SYMBOLS.get gave None)
SymbolResult(symbol, outcome) ==
    CASE outcome = "ok" -> [symbol |-> symbol, kind |-> "quote", detail |-> "info"]
      [] outcome = "unmapped" ->
            [symbol |-> symbol, kind |-> "error", detail |-> "Symbol not found"]
      [] outcome = "bad_field" ->
            [symbol |-> symbol, kind |-> "error", detail |-> "TypeError"]
      [] OTHER -> [symbol |-> symbol, kind |-> "error", detail |-> "provider exception"]

\* asyncio.gather(*[...]): the results in the order of the awaitables passed
GatherByCompletion(results, order) == [j \in 1..Len(order) |-> results[order[j]]]
Gather(results, order) == results

\* the handler up to its first suspension: parse, look in the cache, and
\* either answer from the cache or create one task per symbol
BatchRequest(symbols) ==
    LET key == BatchCacheKey(symbols)
        got == get_cache(redis_client, redis_up, redis_store, memory_cache, key, now)
    IN  /\ batch_pc = "idle"
        /\ batch_symbols' = symbols
        /\ memory_cache' = got.mem
        /\ task_order' = <<>>
        /\ IF ~got.raised /\ Truthy(got.value)
           THEN /\ batch_pc' = "done"
                /\ batch_response' = [status |-> 200, body |-> got.value.val, cached |-> TRUE]
                /\ task_pc' = <<>>
                /\ task_result' = <<>>
           ELSE /\ batch_pc' = "gather"
                /\ batch_response' = NoResponse
                /\ task_pc' = [i \in 1..Len(symbols) |-> "pending"]
                /\ task_result' = [i \in 1..Len(symbols) |-> NoTaskResult]
        /\ UNCHANGED <<now, redis_client, redis_up, ever_up, redis_store, call, last_set>>
        /\ UNCHANGED <<rlVars, btInput, httpVars, pyVars, svcVars, btVars>>

\* fetch_one_symbol(sym) up to its first suspension: an unmapped symbol
\* returns its error dict at once, a mapped one awaits the thread pool
TaskStart(i) ==
    /\ batch_pc = "gather"
    /\ i \in DOMAIN task_pc
    /\ task_pc[i] = "pending"
    /\ IF batch_symbols[i] \in DOMAIN STOCK_SYMBOLS
       THEN /\ task_pc' = [task_pc EXCEPT ![i] = "awaiting"]
            /\ UNCHANGED <<task_result, task_order>>
       ELSE /\ task_pc' = [task_pc EXCEPT ![i] = "done"]
            /\ task_result' = [task_result EXCEPT ![i] =
                                  SymbolResult(batch_symbols[i], "unmapped")]
            /\ task_order' = Append(task_order, i)
    /\ UNCHANGED <<batch_symbols, batch_pc, batch_response>>
    /\ UNCHANGED <<cacheVars, rlVars, btInput, httpVars, pyVars, svcVars, btVars>>

\* run_in_executor completes for task i; the rest of fetch_one_symbol runs
TaskComplete(i, outcome) ==
    /\ batch_pc = "gather"
    /\ i \in DOMAIN task_pc
    /\ task_pc[i] = "awaiting"
    /\ task_pc' = [task_pc EXCEPT ![i] = "done"]
    /\ task_result' = [task_result EXCEPT ![i] = SymbolResult(batch_symbols[i], outcome)]
    /\ task_order' = Append(task_order, i)
    /\ UNCHANGED <<batch_symbols, batch_pc, batch_response>>
    /\ UNCHANGED <<cacheVars, rlVars, btInput, httpVars, pyVars, svcVars, btVars>>

\* gather returns: cache the results for 120 s and answer with them
BatchRespond ==
    LET results == Gather(task_result, task_order)
        r == set_cache(redis_client, redis_up, redis_store, memory_cache,
                       BatchCacheKey(batch_symbols), PyList(results), 120, now)
    IN  /\ batch_pc = "gather"
        /\ \A i \in DOMAIN task_pc : task_pc[i] = "done"
        /\ redis_store' = r.store
        /\ memory_cache' = r.mem
        /\ batch_response' = [status |-> 200, body |-> results, cached |-> FALSE]
        /\ batch_pc' = "done"
        /\ UNCHANGED <<batch_symbols, task_pc, task_result, task_order>>
        /\ UNCHANGED <<now, redis_client, redis_up, ever_up, call, last_set>>
        /\ UNCHANGED <<rlVars, btInput, httpVars, pyVars, svcVars, btVars>>

RECURSIVE SeqsUpTo(_, _)
\* the sequences over S of length at most n
SeqsUpTo(S, n) ==
    IF n = 0 THEN {<<>>}
    ELSE LET shorter == SeqsUpTo(S, n - 1)
         IN  shorter \cup {Append(q, x) : q \in shorter, x \in S}

\* what an earlier request for AAPLx alone left in the in-process map
EarlierBatch ==
    MemoryPut(<<>>, BatchCacheKey(<<"AAPLx">>),
              PyList(<<SymbolResult("AAPLx", "ok")>>), 120)

\* the cache is empty, or still holds the answer to an earlier request
BatchInit ==
    /\ now = 0
    /\ redis_client \in {"None", "client"}
    /\ redis_up \in BOOLEAN
    /\ ever_up = (redis_client = "client" /\ redis_up)
    /\ redis_store = <<>>
    /\ memory_cache \in {<<>>, EarlierBatch}
    /\ call = NoCall
    /\ last_set = <<>>
    /\ RlIdle
    /\ BatchIdle
    /\ BtIdle
    /\ HttpIdle
    /\ PyIdle
    /\ SvcIdle
    /\ bt_request = NoRequest
    /\ bt_provider = <<>>

BatchNext ==
    \/ \E symbols \in SeqsUpTo(RequestSymbols, MaxBatch) : BatchRequest(symbols)
    \/ \E i \in 1..MaxBatch : TaskStart(i)
    \/ \E i \in 1..MaxBatch, outcome \in ProviderOutcomes : TaskComplete(i, outcome)
    \/ BatchRespond

SpecBatch == BatchInit /\ [][BatchNext]_vars

----------------------------------------------------------------------------
(* The backtesting handler: backtest_strategy *)

\* "len(common_dates) < 50"
MinCommonDates == 50
\* strategy_params.get('lookbackPeriod', 20)
DefaultLookback == 20
\* request.get('initialCapital', 10000)
DefaultCapital == 10000

\* a history is the trading days first..last with a closing price per day
HistoryIndex(hist) == IF hist.present THEN hist.first..hist.last ELSE {}

\* hist.loc[date, 'Close'], in whole currency units
Close(hist, date) ==
    CASE hist.pattern = "flat" -> 100
      [] hist.pattern = "rising" -> 90 + date
      [] hist.pattern = "vee" ->
            \* a one-day fall of a fifth, then a climb past the old level
            IF date < 30 THEN 100
            ELSE IF date < 35 THEN 80 + 10 * (date - 30)
            ELSE 130
      [] hist.pattern = "cross" ->
            \* level until the 50th day, a jump, then a slump
            IF date < 50 THEN 100
            ELSE IF date = 50 THEN 130
            ELSE 60
      [] hist.pattern = "dip" ->
            \* a one-day fall of a fifth, a fortnight level, then a step up
            IF date < 30 THEN 100
            ELSE IF date < 44 THEN 80
            ELSE 90
      [] OTHER -> 0

History(first, last, pattern) ==
    [present |-> TRUE, first |-> first, last |-> last, pattern |-> pattern]

\* the histories the provider may hold for a symbol
HistoryChoices ==
    {NoHistory,
     History(1, MinCommonDates - 1, "flat"),
     History(1, MinCommonDates, "rising"),
     History(1, MaxDate, "flat"),
     History(2, MaxDate, "rising")}

\* the history of the benchmark SPYx: it starts a day late
BenchmarkHistory == History(2, MaxDate, "rising")

\* a weight as the fraction num / den
Weight(num, den) == [num |-> num, den |-> den]

\* the requests served: symbols, weights (<<>>: not given), the rest below
RequestShapes ==
    {[symbols |-> <<"AAPLx", "TSLAx">>, weights |-> <<>>],
     [symbols |-> <<"AAPLx", "TSLAx">>, weights |-> <<Weight(60, 100), Weight(40, 100)>>],
     [symbols |-> <<"AAPLx", "ZZZx", "TSLAx">>,
      weights |-> <<Weight(50, 100), Weight(30, 100), Weight(20, 100)>>],
     [symbols |-> <<"AAPLx", "TSLAx">>, weights |-> <<Weight(100, 100)>>],
     [symbols |-> <<>>, weights |-> <<>>]}

\* "buy-and-hold", and a strategy string none of the branches matches
Strategies == {"buy-and-hold", "unknown"}
Lookbacks == {DefaultLookback, MinCommonDates}

\* fetch_full_history(xstock_symbol): None for an unmapped symbol, else what
\* the provider holds
fetch_full_history(provider, symbol) ==
    IF symbol \in DOMAIN STOCK_SYMBOLS THEN provider[symbol] ELSE NoHistory

\* "if not weights: weights = [1.0 / len(symbols)] * len(symbols)"
EffectiveWeights(request) ==
    IF request.weights = <<>>
    THEN [k \in 1..Len(request.symbols) |-> Weight(1, Len(request.symbols))]
    ELSE request.weights

RECURSIVE SelectPresent(_, _, _)
\* the (symbol, history) pairs whose history is not None, in the order of
\* positions `order`
SelectPresent(symbols, hist_list, order) ==
    IF order = <<>> THEN <<>>
    ELSE LET k == Head(order)
             rest == SelectPresent(symbols, hist_list, Tail(order))
         IN  IF hist_list[k].present
             THEN <<[symbol |-> symbols[k], hist |-> hist_list[k]]>> \o rest
             ELSE rest

\* "for sym, hist_df in zip(symbols, hist_data_list): ... stock_data[sym] = hist_df"
BuildStockDataByCompletion(symbols, hist_list, order) ==
    SelectPresent(symbols, hist_list, order)
BuildStockData(symbols, hist_list, order) ==
    SelectPresent(symbols, hist_list, [k \in 1..Len(symbols) |-> k])

RECURSIVE CommonDates(_)
\* the intersection of the indexes of all of stock_data
CommonDates(data) ==
    IF Len(data) = 1 THEN HistoryIndex(data[1].hist)
    ELSE HistoryIndex(data[1].hist) \cap CommonDates(Tail(data))

\* "if not common_dates or len(common_dates) < 50"
TooFewDatesOnlyEmpty(common) == common = {}
TooFewDates(common) == common = {} \/ Cardinality(common) < MinCommonDates

RECURSIVE SortDates(_)
\* sorted(common_dates)
SortDates(dates) ==
    IF dates = {} THEN <<>>
    ELSE LET least == CHOOSE d \in dates : \A e \in dates : d <= e
         IN  <<least>> \o SortDates(dates \ {least})

\* the symbols of stock_data, in dict order
StockKeys(data) == [k \in 1..Len(data) |-> data[k].symbol]

\* benchmark_shares after lines 2280-2285
BenchmarkShares(bench, dates, capital) ==
    IF bench.present
    THEN IF dates[1] \in HistoryIndex(bench) /\ Close(bench, dates[1]) > 0
         THEN [bound |-> TRUE, per |-> Close(bench, dates[1])]
         ELSE Unbound
    ELSE [bound |-> TRUE, per |-> 0]

\* "benchmark_shares * benchmark_price" (shares = capital / start price)
BenchmarkValue(shares, capital, price) ==
    IF shares.per = 0 THEN 0 ELSE (capital * price) \div shares.per

\* int(a / b) for b > 0: truncation towards zero
IntDiv(a, b) == IF a >= 0 THEN a \div b ELSE -((-a) \div b)

RECURSIVE BuyAndHold(_, _, _, _, _)
\* "for sym, weight in zip(stock_data.keys(), weights)": the buys of the
\* first active day, from pair k on; st = [cash, positions, trade_log]
BuyAndHold(data, weights, date, k, st) ==
    IF k > Len(data) \/ k > Len(weights) THEN st
    ELSE LET sym == data[k].symbol
             price == Close(data[k].hist, date)
             allocation_num == st.cash * weights[k].num
             shares_to_buy == IntDiv(allocation_num, weights[k].den * price)
             cost == shares_to_buy * price
             bought ==
                 [cash |-> st.cash - cost,
                  positions |-> [st.positions EXCEPT ![sym] = shares_to_buy],
                  trade_log |-> Append(st.trade_log,
                      [date |-> date, symbol |-> sym, action |-> "BUY",
                       shares |-> shares_to_buy, price |-> price, total |-> cost])]
         IN  IF date \in HistoryIndex(data[k].hist) /\ price > 0 /\ shares_to_buy > 0
             THEN BuyAndHold(data, weights, date, k + 1, bought)
             ELSE BuyAndHold(data, weights, date, k + 1, st)

\* strategy_params.get('positionSize', 0.1)
position_size == Weight(1, 10)
\* strategy_params.get('entryThreshold', -2) and ('exitThreshold', 0): the
\* z-score tests below are written for these defaults
short_period == 10
long_period == 50
\* "rolling(window=14)"
RsiWindow == 14

\* "positions[sym] = shares; cash -= cost; trade_log.append({... 'BUY' ...})"
Buy(st, sym, date, shares, price) ==
    [cash |-> st.cash - shares * price,
     positions |-> [st.positions EXCEPT ![sym] = shares],
     trade_log |-> Append(st.trade_log,
         [date |-> date, symbol |-> sym, action |-> "BUY",
          shares |-> shares, price |-> price, total |-> shares * price])]

\* a mishandled sale: logged and credited, the shares still on the books
SellKeepsPosition(st, sym, date, price) ==
    [cash |-> st.cash + st.positions[sym] * price,
     positions |-> st.positions,
     trade_log |-> Append(st.trade_log,
         [date |-> date, symbol |-> sym, action |-> "SELL",
          shares |-> st.positions[sym], price |-> price,
          total |-> st.positions[sym] * price])]

\* "trade_log.append({... 'SELL' ...}); cash += proceeds; positions[sym] = 0"
Sell(st, sym, date, price) ==
    [cash |-> st.cash + st.positions[sym] * price,
     positions |-> [st.positions EXCEPT ![sym] = 0],
     trade_log |-> Append(st.trade_log,
         [date |-> date, symbol |-> sym, action |-> "SELL",
          shares |-> st.positions[sym], price |-> price,
          total |-> st.positions[sym] * price])]

\* "shares_to_buy = int((cash * size) / price); if shares_to_buy > 0: ...
\*  if cost <= cash: <buy>", size the fraction num / den
SizedBuy(st, sym, date, price, num, den) ==
    LET shares_to_buy == IntDiv(st.cash * num, den * price)
    IN  IF shares_to_buy > 0 /\ shares_to_buy * price <= st.cash
        THEN Buy(st, sym, date, shares_to_buy, price)
        ELSE st

\* the first date of "stock_data[sym].loc[:date].tail(n)"
TailFirst(hist, date, n) == IF date - n + 1 > hist.first THEN date - n + 1 ELSE hist.first
\* len(stock_data[sym].loc[:date].tail(n))
TailLen(hist, date, n) == date - TailFirst(hist, date, n) + 1

RECURSIVE SumClose(_, _, _)
\* sum of the closes of the dates lo..hi
SumClose(hist, lo, hi) ==
    IF lo > hi THEN 0 ELSE Close(hist, lo) + SumClose(hist, lo + 1, hi)

RECURSIVE SumSquares(_, _, _)
\* sum of the squared closes of the dates lo..hi
SumSquares(hist, lo, hi) ==
    IF lo > hi THEN 0
    ELSE Close(hist, lo) * Close(hist, lo) + SumSquares(hist, lo + 1, hi)

\* With S the sum and Q the sum of squares of n values: mean = S / n and
\* std (ddof = 1) = sqrt((n*Q - S*S) / (n*(n-1))); the comparisons of
\* z = (p - mean) / std with a constant are made on integers.
Deviation(n, p, S) == n * p - S
Spread(n, S, Q) == n * Q - S * S
\* "std > 0" (std is NaN for n = 1)
StdPositive(n, S, Q) == n > 1 /\ Spread(n, S, Q) > 0
\* z < -2
ZBelowMinus2(n, p, S, Q) ==
    /\ Deviation(n, p, S) < 0
    /\ Deviation(n, p, S) * Deviation(n, p, S) * (n - 1) > 4 * n * Spread(n, S, Q)
\* z > 2
ZAbove2(n, p, S, Q) ==
    /\ Deviation(n, p, S) > 0
    /\ Deviation(n, p, S) * Deviation(n, p, S) * (n - 1) > 4 * n * Spread(n, S, Q)
\* abs(z) < 0.5
ZWithinHalf(n, p, S, Q) ==
    4 * Deviation(n, p, S) * Deviation(n, p, S) * (n - 1) < n * Spread(n, S, Q)
\* p <= mean - 2 * std, and p >= mean + 2 * std (false when std is NaN)
AtLowerBand(n, p, S, Q) ==
    /\ n > 1
    /\ Deviation(n, p, S) <= 0
    /\ Deviation(n, p, S) * Deviation(n, p, S) * (n - 1) >= 4 * n * Spread(n, S, Q)
AtUpperBand(n, p, S, Q) ==
    /\ n > 1
    /\ Deviation(n, p, S) >= 0
    /\ Deviation(n, p, S) * Deviation(n, p, S) * (n - 1) >= 4 * n * Spread(n, S, Q)

\* "STRATEGY 2: MEAN REVERSION", one symbol
MeanReversion(hist, sym, lookback, date, st) ==
    LET lo == TailFirst(hist, date, lookback)
        n == TailLen(hist, date, lookback)
        p == Close(hist, date)
        S == SumClose(hist, lo, date)
        Q == SumSquares(hist, lo, date)
    IN  IF n >= lookback /\ StdPositive(n, S, Q)
        THEN IF ZBelowMinus2(n, p, S, Q) /\ st.positions[sym] = 0
             THEN SizedBuy(st, sym, date, p, position_size.num, position_size.den)
             ELSE IF st.positions[sym] > 0 /\ Deviation(n, p, S) > 0
             THEN Sell(st, sym, date, p)
             ELSE st
        ELSE st

RECURSIVE SumGains(_, _, _)
\* sum of "delta.where(delta > 0, 0)" over the dates lo..hi
SumGains(hist, lo, hi) ==
    IF lo > hi THEN 0
    ELSE (IF Close(hist, lo) > Close(hist, lo - 1)
          THEN Close(hist, lo) - Close(hist, lo - 1) ELSE 0)
         + SumGains(hist, lo + 1, hi)

RECURSIVE SumLosses(_, _, _)
\* sum of "-delta.where(delta < 0, 0)" over the dates lo..hi
SumLosses(hist, lo, hi) ==
    IF lo > hi THEN 0
    ELSE (IF Close(hist, lo) < Close(hist, lo - 1)
          THEN Close(hist, lo - 1) - Close(hist, lo) ELSE 0)
         + SumLosses(hist, lo + 1, hi)

\* "STRATEGY 4: RSI", one symbol.  The first delta of the slice is NaN and
\* counts as 0; the rolling mean is NaN when the slice has fewer than 14 rows,
\* and then neither comparison holds.  rsi < 30 iff 7 * gain < 3 * loss and
\* rsi > 70 iff 3 * gain > 7 * loss.
Rsi(hist, sym, lookback, date, st) ==
    LET first == TailFirst(hist, date, lookback + 1)
        n == TailLen(hist, date, lookback + 1)
        lo == IF date - RsiWindow + 1 > first + 1 THEN date - RsiWindow + 1 ELSE first + 1
        gain == SumGains(hist, lo, date)
        loss == SumLosses(hist, lo, date)
        p == Close(hist, date)
    IN  IF n >= lookback + 1 /\ n >= RsiWindow /\ loss # 0
        THEN IF 7 * gain < 3 * loss /\ st.positions[sym] = 0
             THEN SizedBuy(st, sym, date, p, position_size.num, position_size.den)
             ELSE IF 3 * gain > 7 * loss /\ st.positions[sym] > 0
             THEN Sell(st, sym, date, p)
             ELSE st
        ELSE st

\* "STRATEGY 5: BOLLINGER BANDS", one symbol
BollingerBands(hist, sym, lookback, date, st) ==
    LET lo == TailFirst(hist, date, lookback)
        n == TailLen(hist, date, lookback)
        p == Close(hist, date)
        S == SumClose(hist, lo, date)
        Q == SumSquares(hist, lo, date)
    IN  IF n >= lookback
        THEN IF AtLowerBand(n, p, S, Q) /\ st.positions[sym] = 0
             THEN SizedBuy(st, sym, date, p, position_size.num, position_size.den)
             ELSE IF AtUpperBand(n, p, S, Q) /\ st.positions[sym] > 0
             THEN Sell(st, sym, date, p)
             ELSE st
        ELSE st

\* "STRATEGY 6: MA CROSSOVER", one symbol.  Means of 10 and of 50 values are
\* compared through 5 * (sum of 10) and (sum of 50); with exactly 50 rows
\* "tail(51).head(50)" is all 50 rows.
MaCrossover(hist, sym, date, st) ==
    LET n == date - hist.first + 1
        p == Close(hist, date)
        short_sum == SumClose(hist, date - short_period + 1, date)
        long_sum == SumClose(hist, date - long_period + 1, date)
        prev_short_sum == SumClose(hist, date - short_period, date - 1)
        prev_long_sum == IF n > long_period
                         THEN SumClose(hist, date - long_period, date - 1)
                         ELSE long_sum
    IN  IF n >= long_period
        THEN IF 5 * prev_short_sum <= prev_long_sum /\ 5 * short_sum > long_sum
                /\ st.positions[sym] = 0
             THEN SizedBuy(st, sym, date, p, position_size.num, position_size.den)
             ELSE IF 5 * prev_short_sum >= prev_long_sum /\ 5 * short_sum < long_sum
                     /\ st.positions[sym] > 0
             THEN Sell(st, sym, date, p)
             ELSE st
        ELSE st

\* hist.loc[date, 'High'] and hist.loc[date, 'Low']: the day's range around
\* the close
High(hist, date) == Close(hist, date) + 1
Low(hist, date) == Close(hist, date) - 1

RECURSIVE MaxHigh(_, _, _)
\* hist['High'] over the dates lo..hi, lo <= hi: max()
MaxHigh(hist, lo, hi) ==
    IF lo = hi THEN High(hist, lo)
    ELSE LET rest == MaxHigh(hist, lo + 1, hi)
         IN  IF High(hist, lo) > rest THEN High(hist, lo) ELSE rest

RECURSIVE MinLow(_, _, _)
\* hist['Low'] over the dates lo..hi, lo <= hi: min()
MinLow(hist, lo, hi) ==
    IF lo = hi THEN Low(hist, lo)
    ELSE LET rest == MinLow(hist, lo + 1, hi)
         IN  IF Low(hist, lo) < rest THEN Low(hist, lo) ELSE rest

\* "STRATEGY 7: BREAKOUT", one symbol
Breakout(hist, sym, lookback, date, st) ==
    LET first == TailFirst(hist, date, lookback + 1)
        n == TailLen(hist, date, lookback + 1)
        p == Close(hist, date)
    IN  IF n >= lookback + 1 /\ lookback >= 1
        THEN IF p > MaxHigh(hist, first, date - 1) /\ st.positions[sym] = 0
             THEN SizedBuy(st, sym, date, p, position_size.num, position_size.den)
             ELSE IF p < MinLow(hist, first, date - 1) /\ st.positions[sym] > 0
             THEN Sell(st, sym, date, p)
             ELSE st
        ELSE st

\* the body of "for sym in stock_data:" of the strategies that treat each
\* symbol on its own
SymbolStep(strategy, hist, sym, lookback, date, st) ==
    CASE strategy = "mean-reversion" -> MeanReversion(hist, sym, lookback, date, st)
      [] strategy = "rsi" -> Rsi(hist, sym, lookback, date, st)
      [] strategy = "bollinger-bands" -> BollingerBands(hist, sym, lookback, date, st)
      [] strategy = "ma-crossover" -> MaCrossover(hist, sym, date, st)
      [] strategy = "breakout" -> Breakout(hist, sym, lookback, date, st)
      [] OTHER -> st

RECURSIVE PerSymbol(_, _, _, _, _, _)
\* "for sym in stock_data: if sym not in current_prices: continue; ..."
PerSymbol(strategy, data, lookback, date, k, st) ==
    IF k > Len(data) THEN st
    ELSE PerSymbol(strategy, data, lookback, date, k + 1,
                   IF date \in HistoryIndex(data[k].hist)
                   THEN SymbolStep(strategy, data[k].hist, data[k].symbol,
                                   lookback, date, st)
                   ELSE st)

\* the slice of "STRATEGY 3: MOMENTUM" has lookback + 1 rows
HasMomentum(hist, date, lookback) == TailLen(hist, date, lookback + 1) >= lookback + 1
\* "hist_slice.iloc[0]"
MomentumBase(hist, date, lookback) == Close(hist, TailFirst(hist, date, lookback + 1))
\* returns of a > returns of b, returns = (last - first) / first
HigherReturn(a, b, date, lookback) ==
    Close(a, date) * MomentumBase(b, date, lookback)
        > Close(b, date) * MomentumBase(a, date, lookback)

RECURSIVE InsertByReturn(_, _, _, _, _)
\* k placed before the first index of seq with a strictly lower return
InsertByReturn(data, date, lookback, k, seq) ==
    IF seq = <<>> THEN <<k>>
    ELSE IF HigherReturn(data[k].hist, data[Head(seq)].hist, date, lookback)
    THEN <<k>> \o seq
    ELSE <<Head(seq)>> \o InsertByReturn(data, date, lookback, k, Tail(seq))

RECURSIVE SortedMomentum(_, _, _, _)
\* "sorted(momentum_scores.items(), key=lambda x: x[1], reverse=True)" over
\* the first n symbols of stock_data: indices into stock_data; the sort is
\* stable
SortedMomentum(data, date, lookback, n) ==
    IF n = 0 THEN <<>>
    ELSE LET before == SortedMomentum(data, date, lookback, n - 1)
         IN  IF HasMomentum(data[n].hist, date, lookback)
             THEN InsertByReturn(data, date, lookback, n, before)
             ELSE before

\* a rotation that never exits a position
MomentumExitsNone(data, top, date, k, st) == st

RECURSIVE MomentumExits(_, _, _, _, _)
\* "for sym in list(positions.keys()): if positions[sym] > 0 and sym not in
\*  top_performers and sym in current_prices: <sell>"
MomentumExits(data, top, date, k, st) ==
    IF k > Len(data) THEN st
    ELSE MomentumExits(data, top, date, k + 1,
             IF /\ st.positions[data[k].symbol] > 0
                /\ \A j \in DOMAIN top : top[j] # k
                /\ date \in HistoryIndex(data[k].hist)
             THEN Sell(st, data[k].symbol, date, Close(data[k].hist, date))
             ELSE st)

RECURSIVE MomentumEntries(_, _, _, _, _)
\* "for sym in top_performers: if sym in current_prices and
\*  positions[sym] == 0: shares_to_buy = int((cash / num_positions) / price) ..."
MomentumEntries(data, top, num_positions, date, st) ==
    IF top = <<>> THEN st
    ELSE LET k == Head(top)
         IN  MomentumEntries(data, Tail(top), num_positions, date,
                 IF date \in HistoryIndex(data[k].hist) /\ st.positions[data[k].symbol] = 0
                 THEN SizedBuy(st, data[k].symbol, date, Close(data[k].hist, date),
                               1, num_positions)
                 ELSE st)

\* "STRATEGY 3: MOMENTUM"
Momentum(data, lookback, date, st) ==
    LET sorted_momentum == SortedMomentum(data, date, lookback, Len(data))
        scaled == IntDiv(Len(sorted_momentum) * position_size.num, position_size.den)
        num_positions == IF scaled > 1 THEN scaled ELSE 1
        top_performers ==
            SubSeq(sorted_momentum, 1,
                   IF num_positions < Len(sorted_momentum)
                   THEN num_positions ELSE Len(sorted_momentum))
    IN  IF sorted_momentum = <<>> THEN st
        ELSE MomentumEntries(data, top_performers, num_positions, date,
                             MomentumExits(data, top_performers, date, 1, st))

\* hist1 / hist2 on one date, in hundredths
Ratio(hist1, hist2, date) == IntDiv(100 * Close(hist1, date), Close(hist2, date))

RECURSIVE SumRatio(_, _, _, _)
SumRatio(hist1, hist2, lo, hi) ==
    IF lo > hi THEN 0
    ELSE Ratio(hist1, hist2, lo) + SumRatio(hist1, hist2, lo + 1, hi)

RECURSIVE SumRatioSquares(_, _, _, _)
SumRatioSquares(hist1, hist2, lo, hi) ==
    IF lo > hi THEN 0
    ELSE Ratio(hist1, hist2, lo) * Ratio(hist1, hist2, lo)
         + SumRatioSquares(hist1, hist2, lo + 1, hi)

\* "Sell sym1 (short simulation via holding cash)": shares1 is computed and
\* not used; a short that was executed would leave -shares1
ShortLegSold(st, sym1, date, shares1, price) ==
    [cash |-> st.cash + shares1 * price,
     positions |-> [st.positions EXCEPT ![sym1] = -shares1],
     trade_log |-> Append(st.trade_log,
         [date |-> date, symbol |-> sym1, action |-> "SELL",
          shares |-> shares1, price |-> price, total |-> shares1 * price])]
ShortLeg(st, sym1, date, shares1, price) == st

\* "STRATEGY 8: PAIRS TRADING"
PairsTrading(data, lookback, date, st) ==
    IF Len(data) < 2 THEN st
    ELSE
    LET sym1 == data[1].symbol
        sym2 == data[2].symbol
        hist1 == data[1].hist
        hist2 == data[2].hist
        lo == TailFirst(hist1, date, lookback)
        n == TailLen(hist1, date, lookback)
        p1 == Close(hist1, date)
        p2 == Close(hist2, date)
        r == Ratio(hist1, hist2, date)
        S == SumRatio(hist1, hist2, lo, date)
        Q == SumRatioSquares(hist1, hist2, lo, date)
        flat == st.positions[sym1] = 0 /\ st.positions[sym2] = 0
        closed1 == IF st.positions[sym1] > 0 THEN Sell(st, sym1, date, p1) ELSE st
    IN  IF /\ date \in HistoryIndex(hist1) /\ date \in HistoryIndex(hist2)
           /\ n >= lookback /\ TailLen(hist2, date, lookback) >= lookback
           /\ StdPositive(n, S, Q)
        THEN IF ZAbove2(n, r, S, Q) /\ flat
             THEN SizedBuy(ShortLeg(st, sym1, date,
                                    IntDiv(st.cash * position_size.num,
                                           2 * position_size.den * p1), p1),
                           sym2, date, p2, position_size.num, 2 * position_size.den)
             ELSE IF ZBelowMinus2(n, r, S, Q) /\ flat
             THEN SizedBuy(st, sym1, date, p1, position_size.num, position_size.den)
             ELSE IF ZWithinHalf(n, r, S, Q)
             THEN IF closed1.positions[sym2] > 0
                  THEN Sell(closed1, sym2, date, p2) ELSE closed1
             ELSE st
        ELSE st

\* the strategy branch of one active date: [cash, positions, trade_log]
StrategyStep(strategy, data, weights, lookback, i, date, st) ==
    CASE strategy = "buy-and-hold" ->
            IF i = lookback THEN BuyAndHold(data, weights, date, 1, st) ELSE st
      [] strategy = "momentum" -> Momentum(data, lookback, date, st)
      [] strategy = "pairs-trading" -> PairsTrading(data, lookback, date, st)
      [] OTHER -> PerSymbol(strategy, data, lookback, date, 1, st)

RECURSIVE HoldingsValue(_, _, _, _)
\* sum of positions[sym] * close over the symbols of stock_data from k on
HoldingsValue(data, pos, date, k) ==
    IF k > Len(data) THEN 0
    ELSE (IF date \in HistoryIndex(data[k].hist)
          THEN pos[data[k].symbol] * Close(data[k].hist, date) ELSE 0)
         + HoldingsValue(data, pos, date, k + 1)

\* the handler up to its first suspension: validate, then await the
\* benchmark history
BacktestRequest ==
    /\ bt_pc = "idle"
    /\ IF bt_request.symbols = <<>>
       THEN /\ bt_pc' = "done"
            /\ bt_response' = [status |-> 400, detail |-> "Symbols list is required",
                               finalValue |-> 0]
       ELSE IF Len(bt_request.symbols) # Len(EffectiveWeights(bt_request))
       THEN /\ bt_pc' = "done"
            /\ bt_response' = [status |-> 400,
                               detail |-> "Symbols and weights length mismatch",
                               finalValue |-> 0]
       ELSE /\ bt_pc' = "bench"
            /\ UNCHANGED bt_response
    /\ UNCHANGED <<bt_run, bt_first, bt_fetch, bt_order, benchmark_data, hist_data_list,
                   stock_data, sorted_dates, benchmark_shares, bt_i, cash, positions,
                   trade_log, portfolio_values, benchmark_value_series>>
    /\ UNCHANGED <<cacheVars, rlVars, batchVars, btInput, httpVars, pyVars, svcVars>>

\* the benchmark history arrives; gather creates one task per symbol
BenchFetched ==
    /\ bt_pc = "bench"
    /\ benchmark_data' = fetch_full_history(bt_provider, bt_request.benchmark)
    /\ bt_fetch' = [k \in 1..Len(bt_request.symbols) |-> "pending"]
    /\ hist_data_list' = [k \in 1..Len(bt_request.symbols) |-> NoHistory]
    /\ bt_pc' = "gather"
    /\ UNCHANGED <<bt_run, bt_first, bt_order, stock_data, sorted_dates,
                   benchmark_shares, bt_i, cash, positions, trade_log, portfolio_values,
                   benchmark_value_series, bt_response>>
    /\ UNCHANGED <<cacheVars, rlVars, batchVars, btInput, httpVars, pyVars, svcVars>>

\* fetch_full_history of the k-th symbol completes
HistFetched(k) ==
    /\ bt_pc = "gather"
    /\ k \in DOMAIN bt_fetch
    /\ bt_fetch[k] = "pending"
    /\ bt_fetch' = [bt_fetch EXCEPT ![k] = "done"]
    /\ hist_data_list' = [hist_data_list EXCEPT
                            ![k] = fetch_full_history(bt_provider, bt_request.symbols[k])]
    /\ bt_order' = Append(bt_order, k)
    /\ UNCHANGED <<bt_run, bt_first, bt_pc, benchmark_data, stock_data, sorted_dates,
                   benchmark_shares, bt_i, cash, positions, trade_log, portfolio_values,
                   benchmark_value_series, bt_response>>
    /\ UNCHANGED <<cacheVars, rlVars, batchVars, btInput, httpVars, pyVars, svcVars>>

\* gather returns: filter, align the dates, and either answer 400 or set up
\* the loop (lines 2247-2287)
Align ==
    LET data == BuildStockData(bt_request.symbols, hist_data_list, bt_order)
        common == CommonDates(data)
        dates == SortDates(common)
    IN  /\ bt_pc = "gather"
        /\ \A k \in DOMAIN bt_fetch : bt_fetch[k] = "done"
        /\ stock_data' = data
        /\ IF data = <<>>
           THEN /\ bt_pc' = "done"
                /\ bt_response' = [status |-> 400,
                                   detail |-> "No valid historical data found",
                                   finalValue |-> 0]
                /\ UNCHANGED <<sorted_dates, benchmark_shares, cash, positions>>
           ELSE IF TooFewDates(common)
           THEN /\ bt_pc' = "done"
                /\ bt_response' = [status |-> 400,
                                   detail |-> "Insufficient overlapping historical data",
                                   finalValue |-> 0]
                /\ UNCHANGED <<sorted_dates, benchmark_shares, cash, positions>>
           ELSE /\ bt_pc' = "loop"
                /\ sorted_dates' = dates
                /\ cash' = bt_request.capital
                /\ positions' = [sym \in {data[k].symbol : k \in 1..Len(data)} |-> 0]
                /\ benchmark_shares' =
                       BenchmarkShares(benchmark_data, dates, bt_request.capital)
                /\ UNCHANGED bt_response
        /\ UNCHANGED <<bt_run, bt_first, bt_fetch, bt_order, benchmark_data,
                       hist_data_list, bt_i, trade_log, portfolio_values,
                       benchmark_value_series>>
        /\ UNCHANGED <<cacheVars, rlVars, batchVars, btInput, httpVars, pyVars, svcVars>>

\* "if i < lookback_period": the date only has its portfolio value tracked
InWarmupOneShort(i, lookback) == i < lookback - 1
InWarmup(i, lookback) == i < lookback

\* one iteration of "for i, current_date in enumerate(sorted_dates)"
LoopStep ==
    LET date == sorted_dates[bt_i + 1]
        st0 == [cash |-> cash, positions |-> positions, trade_log |-> trade_log]
        st == IF InWarmup(bt_i, bt_request.lookback) THEN st0
              ELSE StrategyStep(bt_request.strategy, stock_data,
                                EffectiveWeights(bt_request), bt_request.lookback,
                                bt_i, date, st0)
        benchmark_tracked == benchmark_data.present /\ date \in HistoryIndex(benchmark_data)
    IN  /\ bt_pc = "loop"
        /\ bt_i < Len(sorted_dates)
        /\ cash' = st.cash
        /\ positions' = st.positions
        /\ trade_log' = st.trade_log
        /\ portfolio_values' =
               Append(portfolio_values,
                      st.cash + HoldingsValue(stock_data, st.positions, date, 1))
        /\ IF benchmark_tracked /\ ~benchmark_shares.bound
           THEN \* NameError on benchmark_shares: "except Exception" answers 500
                /\ bt_pc' = "done"
                /\ bt_response' = [status |-> 500, detail |-> "Failed to run backtest",
                                   finalValue |-> 0]
                /\ UNCHANGED <<bt_i, benchmark_value_series>>
           ELSE /\ benchmark_value_series' =
                       Append(benchmark_value_series,
                              IF benchmark_tracked
                              THEN BenchmarkValue(benchmark_shares, bt_request.capital,
                                                  Close(benchmark_data, date))
                              ELSE bt_request.capital)
                /\ bt_i' = bt_i + 1
                /\ UNCHANGED <<bt_pc, bt_response>>
        /\ UNCHANGED <<bt_run, bt_first, bt_fetch, bt_order, benchmark_data,
                       hist_data_list, stock_data, sorted_dates, benchmark_shares>>
        /\ UNCHANGED <<cacheVars, rlVars, batchVars, btInput, httpVars, pyVars, svcVars>>

\* the loop is exhausted: the metrics and the result (lines 2729-2796)
Finish ==
    /\ bt_pc = "loop"
    /\ bt_i = Len(sorted_dates)
    /\ bt_pc' = "done"
    /\ bt_response' = [status |-> 200, detail |-> "",
                       finalValue |-> portfolio_values[Len(portfolio_values)]]
    /\ UNCHANGED <<bt_run, bt_first, bt_fetch, bt_order, benchmark_data, hist_data_list,
                   stock_data, sorted_dates, benchmark_shares, bt_i, cash, positions,
                   trade_log, portfolio_values, benchmark_value_series>>
    /\ UNCHANGED <<cacheVars, rlVars, batchVars, btInput, httpVars, pyVars, svcVars>>

\* the same request is posted a second time
SecondRun ==
    /\ bt_pc = "done"
    /\ bt_run = 1
    /\ bt_run' = 2
    /\ bt_first' = [status |-> bt_response.status, trade_log |-> trade_log,
                    finalValue |-> bt_response.finalValue, order |-> bt_order]
    /\ bt_pc' = "idle"
    /\ bt_fetch' = <<>>
    /\ bt_order' = <<>>
    /\ benchmark_data' = NoHistory
    /\ hist_data_list' = <<>>
    /\ stock_data' = <<>>
    /\ sorted_dates' = <<>>
    /\ benchmark_shares' = Unbound
    /\ bt_i' = 0
    /\ cash' = 0
    /\ positions' = <<>>
    /\ trade_log' = <<>>
    /\ portfolio_values' = <<>>
    /\ benchmark_value_series' = <<>>
    /\ bt_response' = NoBtResponse
    /\ UNCHANGED <<cacheVars, rlVars, batchVars, btInput, httpVars, pyVars, svcVars>>

BacktestInit ==
    /\ CacheIdle(0)
    /\ redis_client = "None"
    /\ redis_up = FALSE
    /\ ever_up = FALSE
    /\ RlIdle
    /\ BatchIdle
    /\ BtIdle
    /\ HttpIdle
    /\ PyIdle
    /\ SvcIdle
    /\ \E shape \in RequestShapes, strategy \in Strategies, lookback \in Lookbacks,
          benchmark \in {"SPY", "SPYx"} :
          bt_request = [symbols |-> shape.symbols, weights |-> shape.weights,
                        strategy |-> strategy, lookback |-> lookback,
                        capital |-> DefaultCapital, benchmark |-> benchmark]
    /\ \E aapl \in HistoryChoices, tsla \in HistoryChoices :
          bt_provider = [s \in DOMAIN STOCK_SYMBOLS |->
                            CASE s = "AAPLx" -> aapl
                              [] s = "TSLAx" -> tsla
                              [] OTHER -> BenchmarkHistory]

\* the eight strategies of the handler, and a string none of them matches
AllStrategies ==
    {"buy-and-hold", "mean-reversion", "momentum", "rsi", "bollinger-bands",
     "ma-crossover", "breakout", "pairs-trading", "unknown"}

\* requests that reach the loop: default weights; weights of which one is
\* negative; a symbol the service does not map
StrategyShapes ==
    {[symbols |-> <<"AAPLx", "TSLAx">>, weights |-> <<>>],
     [symbols |-> <<"AAPLx", "TSLAx">>, weights |-> <<Weight(-50, 100), Weight(150, 100)>>],
     [symbols |-> <<"ZZZx", "TSLAx", "AAPLx">>, weights |-> <<>>]}

\* the handler serving one request of any strategy over histories that move
StrategyInit ==
    /\ CacheIdle(0)
    /\ redis_client = "None"
    /\ redis_up = FALSE
    /\ ever_up = FALSE
    /\ RlIdle
    /\ BatchIdle
    /\ BtIdle
    /\ HttpIdle
    /\ PyIdle
    /\ SvcIdle
    /\ \E shape \in StrategyShapes, strategy \in AllStrategies,
          lookback \in {5, DefaultLookback} :
          bt_request = [symbols |-> shape.symbols, weights |-> shape.weights,
                        strategy |-> strategy, lookback |-> lookback,
                        capital |-> DefaultCapital, benchmark |-> "SPY"]
    /\ \E aapl \in {History(1, MaxDate, "vee"), History(1, MaxDate, "cross"),
                    History(1, MaxDate, "dip")},
          tsla \in {History(1, MaxDate, "flat"), History(1, MaxDate, "cross"),
                    History(2, MaxDate, "vee"), History(1, MaxDate, "rising")} :
          bt_provider = [s \in DOMAIN STOCK_SYMBOLS |->
                            CASE s = "AAPLx" -> aapl
                              [] s = "TSLAx" -> tsla
                              [] OTHER -> BenchmarkHistory]

StrategyNext ==
    \/ BacktestRequest
    \/ BenchFetched
    \/ \E k \in DOMAIN bt_fetch : HistFetched(k)
    \/ Align
    \/ LoopStep
    \/ Finish

SpecStrategy == StrategyInit /\ [][StrategyNext]_vars

BacktestNext ==
    \/ BacktestRequest
    \/ BenchFetched
    \/ \E k \in DOMAIN bt_fetch : HistFetched(k)
    \/ Align
    \/ LoopStep
    \/ Finish
    \/ SecondRun

SpecBacktest == BacktestInit /\ [][BacktestNext]_vars

----------------------------------------------------------------------------
(* Routing: the routes of `app` in registration order *)

\* a route: "{}" stands for a path parameter; line is where it is registered
Route(method, path, endpoint, line) ==
    [method |-> method, path |-> path, endpoint |-> endpoint, line |-> line]

ROUTES ==
    <<Route("GET", <<"health">>, "health_check", 1329),
      Route("GET", <<"warmup-status">>, "get_warmup_status", 1334),
      Route("GET", <<"api", "realtime", "batch">>, "get_batch_realtime_data_v2", 1359),
      Route("GET", <<"api", "heatmap">>, "get_heatmap_data", 1438),
      Route("GET", <<"api", "indices">>, "get_market_indices", 1532),
      Route("GET", <<"api", "market", "news">>, "get_market_news", 1662),
      Route("GET", <<"api", "market", "unusual-volume">>, "get_unusual_volume", 1819),
      Route("GET", <<"api", "market", "analyst-summary">>, "get_analyst_summary", 1900),
      Route("GET", <<"api", "market", "index-chart", "{}">>, "get_index_chart_data", 2009),
      Route("POST", <<"api", "quant", "backtest">>, "backtest_strategy", 2185),
      Route("POST", <<"api", "quant", "optimize">>, "optimize_portfolio", 2804),
      Route("POST", <<"api", "quant", "black-litterman">>, "black_litterman_model", 2936),
      Route("POST", <<"api", "quant", "risk-metrics">>, "calculate_risk_metrics", 3191),
      Route("POST", <<"api", "quant", "correlation">>, "calculate_correlation", 3327),
      Route("POST", <<"api", "quant", "monte-carlo">>, "monte_carlo_simulation", 3527),
      Route("POST", <<"api", "portfolio", "analyze">>, "analyze_portfolio", 3644),
      Route("POST", <<"api", "portfolio", "optimize-allocation">>, "optimize_portfolio_allocation", 3944),
      Route("GET", <<"api", "options", "chain", "{}">>, "get_options_chain", 4087),
      Route("GET", <<"api", "options", "unusual-activity">>, "get_unusual_options_activity", 4329),
      Route("GET", <<"api", "options", "put-call-ratio", "{}">>, "get_put_call_ratio", 4461),
      Route("GET", <<"api", "options", "implied-volatility", "{}">>, "get_implied_volatility_surface", 4574),
      Route("GET", <<"api", "options", "greeks", "{}">>, "get_options_greeks_analysis", 4710),
      Route("GET", <<"api", "options", "historical-iv", "{}">>, "get_historical_iv_rank", 4874),
      Route("GET", <<"api", "options", "screen">>, "screen_options", 5008),
      Route("GET", <<"api", "realtime", "{}">>, "get_realtime_data", 5233),
      Route("GET", <<"api", "historical", "{}">>, "get_historical_data", 5258),
      Route("GET", <<"api", "chart", "{}">>, "get_chart_data", 5285),
      Route("GET", <<"api", "fundamentals", "{}">>, "get_fundamentals", 5400),
      Route("GET", <<"api", "earnings", "{}">>, "get_earnings", 5525),
      Route("GET", <<"api", "analysts", "{}">>, "get_analysts", 5647),
      Route("GET", <<"api", "ownership", "{}">>, "get_ownership", 5770),
      Route("GET", <<"api", "news", "{}">>, "get_news", 5873),
      Route("POST", <<"api", "screener">>, "screen_stocks", 5997),
      Route("GET", <<"api", "pulse">>, "get_market_pulse", 6232),
      Route("GET", <<"api", "sectors">>, "get_sector_analysis", 6288),
      Route("GET", <<"api", "sectors", "historical">>, "get_sector_historical_performance", 6435),
      Route("GET", <<"api", "intel", "all-xstocks">>, "get_all_xstocks", 6603),
      Route("GET", <<"api", "dashboard", "market">>, "get_unified_dashboard", 6626),
      Route("POST", <<"api", "portfolio", "analyze">>, "analyze_portfolio", 6828),
      Route("POST", <<"api", "portfolio", "optimize">>, "optimize_portfolio", 6887),
      Route("POST", <<"api", "portfolio", "monte-carlo">>, "portfolio_monte_carlo", 6946)>>

\* the path matches the route's pattern, segment by segment
PathMatches(pattern, path) ==
    /\ Len(pattern) = Len(path)
    /\ \A k \in 1..Len(pattern) : pattern[k] = "{}" \/ pattern[k] = path[k]

\* the value bound to the route's path parameter ("" when it has none)
PathParam(pattern, path) ==
    IF \E k \in 1..Len(pattern) : pattern[k] = "{}"
    THEN path[CHOOSE k \in 1..Len(pattern) : pattern[k] = "{}"]
    ELSE ""

RECURSIVE LastMatch(_, _, _, _)
\* the index of the last matching route, or 0
LastMatch(routes, method, path, k) ==
    IF k > Len(routes) THEN 0
    ELSE LET later == LastMatch(routes, method, path, k + 1)
         IN  IF later # 0 THEN later
             ELSE IF routes[k].method = method /\ PathMatches(routes[k].path, path)
             THEN k ELSE 0

RECURSIVE FirstMatch(_, _, _, _)
\* the index of the first route from k on matching method and path, or 0
FirstMatch(routes, method, path, k) ==
    IF k > Len(routes) THEN 0
    ELSE IF routes[k].method = method /\ PathMatches(routes[k].path, path) THEN k
    ELSE FirstMatch(routes, method, path, k + 1)

\* a result dict as a Python value
PyDict(fields) == [type |-> "dict", val |-> <<fields>>]

Config(period, interval) == [period |-> period, interval |-> interval]

\* timeframe_map of get_index_chart_data
IndexTimeframeMap ==
    ("1m" :> Config("7d", "1m")) @@ ("2m" :> Config("60d", "2m")) @@
    ("5m" :> Config("60d", "5m")) @@ ("15m" :> Config("60d", "15m")) @@
    ("30m" :> Config("60d", "30m")) @@ ("1h" :> Config("730d", "1h")) @@
    ("1D" :> Config("max", "1d")) @@ ("1W" :> Config("max", "1wk")) @@
    ("1M" :> Config("max", "1mo")) @@ ("3M" :> Config("max", "3mo")) @@
    ("6M" :> Config("max", "1mo")) @@ ("1Y" :> Config("max", "3mo"))

\* timeframe_map of get_chart_data
ChartTimeframeMap ==
    ("1m" :> Config("1d", "1m")) @@ ("2m" :> Config("5d", "2m")) @@
    ("5m" :> Config("5d", "5m")) @@ ("15m" :> Config("5d", "15m")) @@
    ("30m" :> Config("5d", "30m")) @@ ("1h" :> Config("1mo", "1h")) @@
    ("1D" :> Config("max", "1d")) @@ ("1W" :> Config("max", "1wk")) @@
    ("1M" :> Config("max", "1mo")) @@ ("3M" :> Config("max", "3mo")) @@
    ("6M" :> Config("max", "1mo")) @@ ("1Y" :> Config("max", "3mo")) @@
    ("1m_full" :> Config("7d", "1m")) @@ ("2m_full" :> Config("60d", "2m")) @@
    ("5m_full" :> Config("60d", "5m")) @@ ("15m_full" :> Config("60d", "15m")) @@
    ("30m_full" :> Config("60d", "30m")) @@ ("1h_full" :> Config("730d", "1h"))

\* "timeframe_map.get(timeframe, {"period": "1d", "interval": "5m"})"
TimeframeConfig(timeframe_map, timeframe) ==
    IF timeframe \in DOMAIN timeframe_map
    THEN timeframe_map[timeframe] ELSE Config("1d", "5m")

\* the timeframe strings requested; "45m" is in neither table
Timeframes == {"1m", "5m", "1h", "1D", "1W", "1M", "1h_full", "45m"}

\* "timeframe.endswith('m') or timeframe.endswith('h')" on those strings
IsIntraday(timeframe) == timeframe \in {"1m", "5m", "1h", "45m"}
\* "cache_ttl = 30 if is_intraday else 300"
CacheTtl(timeframe) == IF IsIntraday(timeframe) THEN 30 ELSE 300

\* a response of status 200 carrying the configuration used
ChartResult(handler, config) ==
    [status |-> 200, handler |-> handler, message |-> <<>>,
     period |-> config.period, interval |-> config.interval, cached |-> FALSE]

\* a response without a chart: an error, or a plain answer
Answer(status, handler, message) ==
    [status |-> status, handler |-> handler, message |-> message,
     period |-> "", interval |-> "", cached |-> FALSE]

\* the router: the first matching route gets the request
Dispatch ==
    LET k == FirstMatch(ROUTES, http_request.method, http_request.path, 1)
    IN  /\ http_pc = "idle"
        /\ IF k = 0
           THEN /\ http_pc' = "done"
                /\ http_response' =
                       Answer(IF \E j \in DOMAIN ROUTES :
                                    PathMatches(ROUTES[j].path, http_request.path)
                              THEN 405 ELSE 404, "router", <<>>)
                /\ UNCHANGED http_locals
           ELSE /\ http_pc' = ROUTES[k].endpoint
                /\ http_locals' = [param |-> PathParam(ROUTES[k].path, http_request.path),
                                   cache_key |-> <<>>]
                /\ UNCHANGED http_response
        /\ UNCHANGED <<http_request, yf_data>>
        /\ UNCHANGED <<cacheVars, rlVars, batchVars, btInput, btVars, pyVars, svcVars>>

\* a handler returns what the cache holds for its key
ReturnCached(handler, got) ==
    [status |-> 200, handler |-> handler, message |-> <<>>,
     period |-> got.value.val[1].period, interval |-> got.value.val[1].interval,
     cached |-> TRUE]

\* GET /api/market/index-chart/{symbol}
GetIndexChartData ==
    LET symbol == http_locals.param
        timeframe == http_request.timeframe
        cache_key == <<"index_chart", symbol, timeframe>>
        got == get_cache(redis_client, redis_up, redis_store, memory_cache, cache_key, now)
        config == TimeframeConfig(IndexTimeframeMap, timeframe)
        result == ChartResult("get_index_chart_data", config)
        put == set_cache(redis_client, redis_up, redis_store, got.mem, cache_key,
                         PyDict(config), CacheTtl(timeframe), now)
    IN  /\ http_pc = "get_index_chart_data"
        /\ http_pc' = "done"
        /\ http_locals' = [http_locals EXCEPT !.cache_key = cache_key]
        /\ IF Truthy(got.value)
           THEN /\ http_response' = ReturnCached("get_index_chart_data", got)
                /\ memory_cache' = got.mem
                /\ UNCHANGED redis_store
           ELSE IF yf_data.hist_empty
           THEN /\ http_response' = Answer(200, "get_index_chart_data",
                                           <<"No chart data available for ", symbol>>)
                /\ memory_cache' = got.mem
                /\ UNCHANGED redis_store
           ELSE /\ http_response' = result
                /\ memory_cache' = put.mem
                /\ redis_store' = put.store
        /\ UNCHANGED <<now, redis_client, redis_up, ever_up, call, last_set>>
        /\ UNCHANGED <<http_request, yf_data>>
        /\ UNCHANGED <<rlVars, batchVars, btInput, btVars, pyVars, svcVars>>

\* GET /api/chart/{xstock_symbol}
GetChartData ==
    LET xstock_symbol == http_locals.param
        timeframe == http_request.timeframe
        cache_key == <<"chart", xstock_symbol, timeframe>>
        got == get_cache(redis_client, redis_up, redis_store, memory_cache, cache_key, now)
        config == TimeframeConfig(ChartTimeframeMap, timeframe)
        result == ChartResult("get_chart_data", config)
        put == set_cache(redis_client, redis_up, redis_store, got.mem, cache_key,
                         PyDict(config), CacheTtl(timeframe), now)
    IN  /\ http_pc = "get_chart_data"
        /\ http_pc' = "done"
        /\ http_locals' = [http_locals EXCEPT !.cache_key = cache_key]
        /\ IF Truthy(got.value)
           THEN /\ http_response' = ReturnCached("get_chart_data", got)
                /\ memory_cache' = got.mem
                /\ UNCHANGED redis_store
           ELSE IF xstock_symbol \notin DOMAIN STOCK_SYMBOLS
           THEN /\ http_response' = Answer(404, "get_chart_data",
                                           <<"Symbol ", xstock_symbol, " not found">>)
                /\ memory_cache' = got.mem
                /\ UNCHANGED redis_store
           ELSE IF yf_data.hist_empty
           THEN \* ValueError inside the try block: "except Exception" answers 500
                /\ http_response' = Answer(500, "get_chart_data",
                                           <<"Failed to fetch chart data: ",
                                             "No chart data available for ",
                                             STOCK_SYMBOLS[xstock_symbol]>>)
                /\ memory_cache' = got.mem
                /\ UNCHANGED redis_store
           ELSE /\ http_response' = result
                /\ memory_cache' = put.mem
                /\ redis_store' = put.store
        /\ UNCHANGED <<now, redis_client, redis_up, ever_up, call, last_set>>
        /\ UNCHANGED <<http_request, yf_data>>
        /\ UNCHANGED <<rlVars, batchVars, btInput, btVars, pyVars, svcVars>>

\* "except HTTPException: raise" stands before "except Exception": the
\* status of an HTTPException raised in the try block reaches the client
ReraisedAsServerError(status) == 500
Reraised(status) == status

\* the expirations the provider may list for a ticker
ExpirationLists == {<<>>, <<"2026-01-16">>, <<"2026-01-16", "2026-02-20">>}

\* GET /api/options/chain/{xstock_symbol}
GetOptionsChain ==
    LET xstock_symbol == http_locals.param
        expiration == http_request.expiration
        cache_key == <<"options_chain", xstock_symbol,
                       IF expiration = "" THEN "all" ELSE expiration>>
        got == get_cache(redis_client, redis_up, redis_store, memory_cache, cache_key, now)
        expirations == yf_data.expirations
        \* the chain itself is not modelled: the cached dict is a token
        put == set_cache(redis_client, redis_up, redis_store, got.mem, cache_key,
                         PyDict(Config("", "")), 300, now)
    IN  /\ http_pc = "get_options_chain"
        /\ http_pc' = "done"
        /\ http_locals' = [http_locals EXCEPT !.cache_key = cache_key]
        /\ IF Truthy(got.value)
           THEN /\ http_response' = ReturnCached("get_options_chain", got)
                /\ memory_cache' = got.mem
                /\ UNCHANGED redis_store
           ELSE IF xstock_symbol \notin DOMAIN STOCK_SYMBOLS
           THEN /\ http_response' = Answer(Reraised(404), "get_options_chain",
                                           <<"xStock symbol ", xstock_symbol, " not found">>)
                /\ memory_cache' = got.mem
                /\ UNCHANGED redis_store
           ELSE IF expirations = <<>>
           THEN /\ http_response' = Answer(Reraised(404), "get_options_chain",
                                           <<"No options data available for ",
                                             xstock_symbol>>)
                /\ memory_cache' = got.mem
                /\ UNCHANGED redis_store
           ELSE IF expiration # "" /\ \A k \in DOMAIN expirations : expirations[k] # expiration
           THEN /\ http_response' = Answer(Reraised(400), "get_options_chain",
                                           <<"Invalid expiration date. Available: ">>)
                /\ memory_cache' = got.mem
                /\ UNCHANGED redis_store
           ELSE IF yf_data.chain_fails
           THEN \* ticker.option_chain raises: "except Exception" answers 500
                /\ http_response' = Answer(500, "get_options_chain",
                                           <<"Failed to fetch options chain: ">>)
                /\ memory_cache' = got.mem
                /\ UNCHANGED redis_store
           ELSE /\ http_response' = Answer(200, "get_options_chain", <<>>)
                /\ memory_cache' = put.mem
                /\ redis_store' = put.store
        /\ UNCHANGED <<now, redis_client, redis_up, ever_up, call, last_set>>
        /\ UNCHANGED <<http_request, yf_data>>
        /\ UNCHANGED <<rlVars, batchVars, btInput, btVars, pyVars, svcVars>>

\* the handlers whose bodies are modelled here
ModelledEndpoints ==
    {"get_index_chart_data", "get_chart_data", "get_options_chain",
     "portfolio_monte_carlo"}

\* any other handler: only which one served the request is recorded
OtherEndpoint ==
    /\ http_pc \notin {"idle", "done"} \cup ModelledEndpoints
    /\ http_pc' = "done"
    /\ http_response' = Answer(200, http_pc, <<>>)
    /\ UNCHANGED <<http_request, yf_data, http_locals>>
    /\ UNCHANGED <<cacheVars, rlVars, batchVars, btInput, btVars, pyVars, svcVars>>

\* the paths requested
HttpPaths ==
    {<<"api", "realtime", "batch">>, <<"api", "realtime", "AAPLx">>,
     <<"api", "chart", "AAPLx">>, <<"api", "chart", "ZZZx">>,
     <<"api", "market", "index-chart", "SPX">>,
     <<"api", "options", "chain", "AAPLx">>, <<"api", "options", "chain", "ZZZx">>,
     <<"api", "options", "unusual-activity">>, <<"api", "portfolio", "analyze">>,
     <<"health">>, <<"api", "nowhere">>}

\* results an earlier request left in the in-process cache
EarlierResults ==
    {<<>>,
     MemoryPut(<<>>, <<"chart", "AAPLx", "1h">>, PyDict(Config("1mo", "1h")), 30),
     MemoryPut(<<>>, <<"options_chain", "AAPLx", "all">>, PyDict(Config("", "")), 300)}

\* one request arrives; Redis was not reachable at startup
HttpInit ==
    /\ now = 0
    /\ redis_client = "None"
    /\ redis_up = FALSE
    /\ ever_up = FALSE
    /\ redis_store = <<>>
    /\ memory_cache \in EarlierResults
    /\ call = NoCall
    /\ last_set = <<>>
    /\ RlIdle
    /\ BatchIdle
    /\ bt_request = NoRequest
    /\ bt_provider = <<>>
    /\ BtIdle
    /\ PyIdle
    /\ SvcIdle
    /\ http_request \in [method : {"GET", "POST"}, path : HttpPaths,
                         timeframe : Timeframes, expiration : {"", "2026-01-16", "2027-01-15"}]
    /\ yf_data \in [hist_empty : BOOLEAN, expirations : ExpirationLists,
                    chain_fails : BOOLEAN]
    /\ http_pc = "idle"
    /\ http_locals = NoLocals
    /\ http_response = NoHttpResponse

HttpNext ==
    \/ Dispatch
    \/ GetIndexChartData
    \/ GetChartData
    \/ GetOptionsChain
    \/ OtherEndpoint

SpecHttp == HttpInit /\ [][HttpNext]_vars

----------------------------------------------------------------------------
(* The Black-Scholes Greeks: calculate_delta, _gamma, _theta, _vega *)

\* A float is kept by what decides the control flow: "nan", its sign ("neg",
\* "zero", "pos"), or "finite" for a number whose sign is not followed.
Floats == {"nan", "neg", "zero", "pos"}

\* an expiration string: a date some days from today, or not a date at all
Expirations == {"in 45 days", "today", "10 days ago", "not a date"}
DaysFromNow(T_str) ==
    CASE T_str = "in 45 days" -> 45
      [] T_str = "today" -> 0
      [] T_str = "10 days ago" -> -10
      [] OTHER -> 0

\* calculate_days_to_expiration, in days: "max(1, days)", and 30 when
\* strptime raises
calculate_days_to_expiration(T_str) ==
    IF T_str = "not a date" THEN 30
    ELSE IF DaysFromNow(T_str) > 1 THEN DaysFromNow(T_str) ELSE 1

\* "sigma <= 0 or T <= 0": every comparison with NaN is false
Degenerate(sigma, T) == sigma \in {"neg", "zero"} \/ T <= 0

\* S / K on Python floats: "raise" stands for ZeroDivisionError
FloatDiv(a, b) ==
    IF b = "zero" THEN "raise"
    ELSE IF a = "nan" \/ b = "nan" THEN "nan"
    ELSE IF a = "zero" THEN "zero"
    ELSE IF a = b THEN "pos" ELSE "neg"

\* math.log(x): "raise" stands for ValueError (math domain error)
MathLog(x) ==
    CASE x = "raise" -> "raise"
      [] x = "nan" -> "nan"
      [] x \in {"neg", "zero"} -> "raise"
      [] OTHER -> "finite"

\* d1 for sigma > 0 or NaN, T > 0: NaN as soon as one operand is
d1(S, K, sigma) ==
    LET log_ratio == MathLog(FloatDiv(S, K))
    IN  IF log_ratio = "raise" THEN "raise"
        ELSE IF log_ratio = "nan" \/ sigma = "nan" THEN "nan"
        ELSE "finite"

\* max(x, floor) with floor > 0: "floor > x" is false for NaN, which stays
PyMax(x) == IF x = "nan" THEN "nan" ELSE "pos"

\* what a Greek returns: one of the fixed defaults, in ten-thousandths, or
\* the number computed by the formula
Sentinel(n) == [kind |-> "sentinel", num |-> n]
Computed(x) == [kind |-> "computed", num |-> 0, float |-> x]

DeltaDefault(option_type) == IF option_type = "call" THEN 5000 ELSE -5000
GammaDefault == 10
ThetaDefault == -500
VegaDefault == 100

calculate_delta(S, K, sigma, T_str, option_type) ==
    LET T == calculate_days_to_expiration(T_str)
    IN  IF Degenerate(sigma, T) THEN Sentinel(DeltaDefault(option_type))
        ELSE IF d1(S, K, sigma) = "raise" THEN Sentinel(DeltaDefault(option_type))
        ELSE Computed(d1(S, K, sigma))

calculate_gamma(S, K, sigma, T_str) ==
    LET T == calculate_days_to_expiration(T_str)
    IN  IF Degenerate(sigma, T) THEN Sentinel(GammaDefault)
        ELSE IF d1(S, K, sigma) = "raise" THEN Sentinel(GammaDefault)
        ELSE Computed(PyMax(d1(S, K, sigma)))

calculate_theta(S, K, sigma, T_str, option_type) ==
    LET T == calculate_days_to_expiration(T_str)
    IN  IF Degenerate(sigma, T) THEN Sentinel(ThetaDefault)
        ELSE IF d1(S, K, sigma) = "raise" THEN Sentinel(ThetaDefault)
        ELSE Computed(d1(S, K, sigma))

calculate_vega(S, K, sigma, T_str) ==
    LET T == calculate_days_to_expiration(T_str)
    IN  IF Degenerate(sigma, T) THEN Sentinel(VegaDefault)
        ELSE IF d1(S, K, sigma) = "raise" THEN Sentinel(VegaDefault)
        ELSE Computed(PyMax(d1(S, K, sigma)))

Greeks == {"calculate_delta", "calculate_gamma", "calculate_theta", "calculate_vega"}

\* one of the four functions returns
GreekReturns ==
    LET a == py_call.args
        value ==
            CASE py_call.fn = "calculate_delta" ->
                    calculate_delta(a.S, a.K, a.sigma, a.T_str, a.option_type)
              [] py_call.fn = "calculate_gamma" ->
                    calculate_gamma(a.S, a.K, a.sigma, a.T_str)
              [] py_call.fn = "calculate_theta" ->
                    calculate_theta(a.S, a.K, a.sigma, a.T_str, a.option_type)
              [] OTHER -> calculate_vega(a.S, a.K, a.sigma, a.T_str)
    IN  /\ py_call.fn \in Greeks
        /\ py_call.outcome = "called"
        /\ py_call' = [py_call EXCEPT !.outcome = "returned", !.value = value]
        /\ UNCHANGED <<cacheVars, rlVars, batchVars, btInput, btVars, httpVars, svcVars>>

\* a Greek is called on a row of the option chain: spot, strike, implied
\* volatility, expiration
GreeksInit ==
    /\ CacheIdle(0)
    /\ redis_client = "None"
    /\ redis_up = FALSE
    /\ ever_up = FALSE
    /\ RlIdle
    /\ BatchIdle
    /\ bt_request = NoRequest
    /\ bt_provider = <<>>
    /\ BtIdle
    /\ SvcIdle
    /\ HttpIdle
    /\ \E fn \in Greeks, S \in Floats \ {"nan"}, K \in {"zero", "pos"}, sigma \in Floats,
          T_str \in Expirations, option_type \in {"call", "put"} :
          py_call = [fn |-> fn,
                     args |-> [S |-> S, K |-> K, sigma |-> sigma, T_str |-> T_str,
                               option_type |-> option_type],
                     outcome |-> "called", value |-> <<>>]

GreeksNext == GreekReturns

SpecGreeks == GreeksInit /\ [][GreeksNext]_vars

----------------------------------------------------------------------------
(* portfolio_analytics: calculate_portfolio_metrics and run_monte_carlo *)

RECURSIVE SumSeq(_)
\* sum(portfolio_weights.values())
SumSeq(w) == IF w = <<>> THEN 0 ELSE Head(w) + SumSeq(Tail(w))

\* weights are kept in hundredths; "abs(total_weight - 1.0) > 0.01"
OutsideTolerance(total_weight) ==
    total_weight - 100 > 1 \/ 100 - total_weight > 1

\* the weight vectors supplied: None, {} and dicts of one or two weights
WeightValues == {-50, 0, 30, 50, 70, 100}
SuppliedWeights ==
    {[given |-> FALSE, w |-> <<>>]}
    \cup {[given |-> TRUE, w |-> w] : w \in SeqsUpTo(WeightValues, 2)}

\* the outcome of the function: it returned with these weights in use (each
\* the fraction num / den), or it raised
Returned(weights) == [outcome |-> "returned", exception |-> "", weights |-> weights]
Raised(exception) == [outcome |-> "raised", exception |-> exception, weights |-> <<>>]

\* calculate_portfolio_metrics up to "weights = np.array(...)": the weights
\* the metrics are computed with
calculate_portfolio_metrics(symbols, portfolio_weights, has_data) ==
    LET w == portfolio_weights.w
        total_weight == SumSeq(w)
    IN  IF ~has_data
        THEN Raised("ValueError")
        ELSE IF ~portfolio_weights.given
        THEN Returned([k \in 1..Len(symbols) |-> Weight(1, Len(symbols))])
        ELSE IF OutsideTolerance(total_weight)
        THEN IF w # <<>> /\ total_weight = 0
             THEN \* "v / total_weight" on Python floats
                  Raised("ZeroDivisionError")
             ELSE Returned([k \in 1..Len(w) |-> Weight(w[k], total_weight)])
        ELSE Returned([k \in 1..Len(w) |-> Weight(w[k], 100)])

\* calculate_portfolio_metrics is called and ends
PortfolioMetricsReturns ==
    /\ py_call.fn = "calculate_portfolio_metrics"
    /\ py_call.outcome = "called"
    /\ py_call' = [py_call EXCEPT
                      !.outcome = "ended",
                      !.value = calculate_portfolio_metrics(
                                    py_call.args.symbols, py_call.args.portfolio_weights,
                                    py_call.args.has_data)]
    /\ UNCHANGED <<cacheVars, rlVars, batchVars, btInput, btVars, httpVars, svcVars>>

\* the keys run_monte_carlo writes into `statistics`
StatisticsKeys ==
    {"mean", "median", "std", "min", "max", "percentile5", "percentile25",
     "percentile75", "percentile95", "probPositive"}

\* the keys of `statistics` read while percentile_paths is built, in order
PercentileReads ==
    <<"percentile5", "percentile25", "percentile50", "percentile75", "percentile95">>

\* run_monte_carlo on data that gives a covariance matrix: the dict it
\* returns, by its keys, or the exception of the first missing key
run_monte_carlo(reads) ==
    IF \E k \in DOMAIN reads : reads[k] \notin StatisticsKeys
    THEN [outcome |-> "raised", exception |-> "KeyError",
          key |-> reads[CHOOSE k \in DOMAIN reads :
                           /\ reads[k] \notin StatisticsKeys
                           /\ \A j \in 1..(k - 1) : reads[j] \in StatisticsKeys],
          keys |-> {}]
    ELSE [outcome |-> "returned", exception |-> "", key |-> "",
          keys |-> {"statistics", "percentilePaths", "samplePaths", "initialCapital",
                    "timeHorizonDays", "numSimulations"}]

\* the bodies POSTed to /api/portfolio/monte-carlo
MonteCarloBodies ==
    [symbols : {<<>>, <<"AAPL">>, <<"AAPL", "MSFT">>}, dates : BOOLEAN]

\* POST /api/portfolio/monte-carlo.  The HTTPException(400) for missing
\* fields is raised inside the try block and no clause re-raises it: it is
\* not a ValueError, so "except Exception" answers 500.  Without price data
\* the failure is in numpy or pandas, as a ValueError (400) or not (500).
PortfolioMonteCarlo ==
    LET body == http_request.body
        result == run_monte_carlo(PercentileReads)
    IN  /\ http_pc = "portfolio_monte_carlo"
        /\ http_pc' = "done"
        /\ IF body.symbols = <<>> \/ ~body.dates
           THEN http_response' = Answer(500, "portfolio_monte_carlo",
                                        <<"Missing required fields: symbols, startDate, endDate">>)
           ELSE IF yf_data.hist_empty
           THEN \E status \in {400, 500} :
                   http_response' = Answer(status, "portfolio_monte_carlo", <<>>)
           ELSE IF result.outcome = "raised"
           THEN http_response' =
                    Answer(IF result.exception = "ValueError" THEN 400 ELSE 500,
                           "portfolio_monte_carlo", <<result.key>>)
           ELSE http_response' = Answer(200, "portfolio_monte_carlo", <<>>)
        /\ UNCHANGED <<http_request, yf_data, http_locals>>
        /\ UNCHANGED <<cacheVars, rlVars, batchVars, btInput, btVars, pyVars, svcVars>>

\* calculate_portfolio_metrics is called with some weights, and a
\* Monte Carlo request arrives
PortfolioInit ==
    /\ CacheIdle(0)
    /\ redis_client = "None"
    /\ redis_up = FALSE
    /\ ever_up = FALSE
    /\ RlIdle
    /\ BatchIdle
    /\ bt_request = NoRequest
    /\ bt_provider = <<>>
    /\ BtIdle
    /\ SvcIdle
    /\ \E symbols \in {<<"AAPL">>, <<"AAPL", "MSFT">>}, weights \in SuppliedWeights,
          has_data \in BOOLEAN :
          py_call = [fn |-> "calculate_portfolio_metrics",
                     args |-> [symbols |-> symbols, portfolio_weights |-> weights,
                               has_data |-> has_data],
                     outcome |-> "called", value |-> <<>>]
    /\ \E body \in MonteCarloBodies :
          http_request = [method |-> "POST", path |-> <<"api", "portfolio", "monte-carlo">>,
                          timeframe |-> "", expiration |-> "", body |-> body]
    /\ yf_data \in [hist_empty : BOOLEAN, expirations : {<<>>}, chain_fails : {FALSE}]
    /\ http_pc = "idle"
    /\ http_locals = NoLocals
    /\ http_response = NoHttpResponse

PortfolioNext ==
    \/ PortfolioMetricsReturns
    \/ Dispatch
    \/ PortfolioMonteCarlo

SpecPortfolio == PortfolioInit /\ [][PortfolioNext]_vars

\* ---------------------------------------------------------------------
\* black_litterman_model: the view matrices (main.py:3080-3123)

\* symbols_list: the symbols with valid data, in request order
symbols_list == <<"AAPLx", "TSLAx">>
n_assets == Len(symbols_list)

\* the most views one request carries
MaxViews == 3

\* views of no asset, one known asset, two assets, one unknown asset;
\* expectedReturn in percent
ViewChoices ==
    [assets : {<<>>, <<"AAPLx">>, <<"TSLAx">>, <<"AAPLx", "TSLAx">>, <<"NVDAx">>},
     expectedReturn : {5, 12}]

\* "if len(view_assets) == 1 and view_assets[0] in symbols_list"
SingleKnownAsset(view) ==
    /\ Len(view.assets) = 1
    /\ \E a \in DOMAIN symbols_list : symbols_list[a] = view.assets[1]

\* symbols_list.index(sym)
IndexOf(sym) ==
    CHOOSE a \in DOMAIN symbols_list :
        /\ symbols_list[a] = sym
        /\ \A b \in 1..(a - 1) : symbols_list[b] # sym

\* "for i, view in enumerate(views)": the row the view writes
RowOf(views, i) == i

\* the loop over the views: P, Q, Omega of n_views rows, and
\* processed_views.  Omega holds the sign of each entry: view_variance /
\* max(confidence, 0.01) is positive for an asset whose variance is.
ViewMatrices(views) ==
    LET n_views == Len(views)
        writes(r) == {i \in 1..n_views : SingleKnownAsset(views[i]) /\ RowOf(views, i) = r}
        last(r) == CHOOSE i \in writes(r) : \A j \in writes(r) : j <= i
    IN  [P |-> [r \in 1..n_views |->
                  [a \in 1..n_assets |->
                      IF \E i \in writes(r) : IndexOf(views[i].assets[1]) = a
                      THEN 1 ELSE 0]],
         Q |-> [r \in 1..n_views |->
                  IF writes(r) # {} THEN views[last(r)].expectedReturn ELSE 0],
         Omega |-> [r \in 1..n_views |->
                      [c \in 1..n_views |-> IF r = c /\ writes(r) # {} THEN 1 ELSE 0]],
         processed_views |-> SelectSeq(views, SingleKnownAsset)]

\* "P = P[:len(processed_views)]", Q and Omega likewise
Trimmed(m) ==
    LET n == Len(m.processed_views)
    IN  [outcome |-> "matrices",
         P |-> SubSeq(m.P, 1, n),
         Q |-> SubSeq(m.Q, 1, n),
         Omega |-> [r \in 1..n |-> SubSeq(m.Omega[r], 1, n)],
         processed_views |-> m.processed_views]

\* black_litterman_model from the views to the matrices the formula uses
black_litterman_model(views) ==
    IF views = <<>>
    THEN [outcome |-> "equilibrium", P |-> <<>>, Q |-> <<>>, Omega |-> <<>>,
          processed_views |-> <<>>]
    ELSE IF ViewMatrices(views).processed_views = <<>>
    THEN [outcome |-> "raised 400", P |-> <<>>, Q |-> <<>>, Omega |-> <<>>,
          processed_views |-> <<>>]
    ELSE Trimmed(ViewMatrices(views))

\* the view matrices are built
BlackLittermanViews ==
    /\ py_call.fn = "black_litterman_model"
    /\ py_call.outcome = "called"
    /\ py_call' = [py_call EXCEPT !.outcome = "ended",
                                  !.value = black_litterman_model(py_call.args.views)]
    /\ UNCHANGED <<cacheVars, rlVars, batchVars, btInput, btVars, httpVars, svcVars>>

\* a request with up to MaxViews views is being served
ViewsInit ==
    /\ CacheIdle(0)
    /\ redis_client = "None"
    /\ redis_up = FALSE
    /\ ever_up = FALSE
    /\ RlIdle
    /\ BatchIdle
    /\ bt_request = NoRequest
    /\ bt_provider = <<>>
    /\ BtIdle
    /\ SvcIdle
    /\ HttpIdle
    /\ \E views \in SeqsUpTo(ViewChoices, MaxViews) :
          py_call = [fn |-> "black_litterman_model", args |-> [views |-> views],
                     outcome |-> "called", value |-> <<>>]

ViewsNext == BlackLittermanViews

SpecViews == ViewsInit /\ [][ViewsNext]_vars

\* ---------------------------------------------------------------------
\* The chunked fetch loops (get_heatmap_data, main.py:1438-1530;
\* scan_unusual_activity_background, main.py:4204-4326) and the quick scan
\* of get_unusual_options_activity (main.py:4329-4458).  A coroutine runs
\* from one suspension point to the next without interleaving; the
\* suspension points are the awaited gathers.

\* the length of all_symbols and of top_symbols (63 each in the source)
NumSymbols == 5
\* "batch_size = 10" of the heatmap and the 20 of the scan, scaled down
batch_size == 3
ScanBatch == 2

ChunkSize(l) == IF l = "heatmap" THEN batch_size ELSE ScanBatch

\* "for i in range(0, len(symbols), size)": the number of iterations
NumChunks(size) == (NumSymbols + size - 1) \div size

\* "batch = symbols[i:i+size]" of iteration k, by list position
Chunk(size, k) == {i \in 1..NumSymbols : (k - 1) * size < i /\ i <= k * size}

\* a gather that returns without awaiting its fetches
AllFinishedAlways(pending) == TRUE
\* "await asyncio.gather(*[...])" returns when every fetch of the chunk has
AllFinished(pending) == pending = {}

\* a guard that lets every execution pass
AlreadyScanningNever(flag) == FALSE
\* "if _scanning_in_progress: return"
AlreadyScanning(flag) == flag

\* GET /api/heatmap on a cache miss: the loop starts its first gather
HeatmapRequest ==
    /\ fetch_chunk["heatmap"] = 0
    /\ fetch_chunk' = [fetch_chunk EXCEPT !["heatmap"] = 1]
    /\ fetch_pending' = [fetch_pending EXCEPT !["heatmap"] = Chunk(batch_size, 1)]
    /\ UNCHANGED <<scanning_in_progress, scan_pc, quick_pc, uoa_cache>>
    /\ UNCHANGED <<cacheVars, rlVars, batchVars, btInput, btVars, httpVars, pyVars,
                   sectorVars, mwVars>>

\* one fetch of a chunk returns (a result, or None after an exception)
FetchDone(l, i) ==
    /\ i \in fetch_pending[l]
    /\ fetch_pending' = [fetch_pending EXCEPT ![l] = @ \ {i}]
    /\ UNCHANGED <<scanning_in_progress, scan_pc, quick_pc, fetch_chunk, uoa_cache>>
    /\ UNCHANGED <<cacheVars, rlVars, batchVars, btInput, btVars, httpVars, pyVars,
                   sectorVars, mwVars>>

\* the gather of a chunk returns and the loop starts the next chunk
NextChunk(l) ==
    /\ fetch_chunk[l] \in 1..(NumChunks(ChunkSize(l)) - 1)
    /\ AllFinished(fetch_pending[l])
    /\ fetch_chunk' = [fetch_chunk EXCEPT ![l] = @ + 1]
    /\ fetch_pending' = [fetch_pending EXCEPT
                            ![l] = @ \cup Chunk(ChunkSize(l), fetch_chunk[l] + 1)]
    /\ UNCHANGED <<scanning_in_progress, scan_pc, quick_pc, uoa_cache>>
    /\ UNCHANGED <<cacheVars, rlVars, batchVars, btInput, btVars, httpVars, pyVars,
                   sectorVars, mwVars>>

\* the last gather of the heatmap returns: the result is cached and returned
HeatmapRespond ==
    /\ fetch_chunk["heatmap"] = NumChunks(batch_size)
    /\ AllFinished(fetch_pending["heatmap"])
    /\ fetch_chunk' = [fetch_chunk EXCEPT !["heatmap"] = @ + 1]
    /\ UNCHANGED <<scanning_in_progress, scan_pc, quick_pc, fetch_pending, uoa_cache>>
    /\ UNCHANGED <<cacheVars, rlVars, batchVars, btInput, btVars, httpVars, pyVars,
                   sectorVars, mwVars>>

\* "if not _scanning_in_progress: background_tasks.add_task(scan_...)"
Schedule(r) ==
    IF scanning_in_progress THEN scan_pc ELSE [scan_pc EXCEPT ![r] = "scheduled"]

\* GET /api/options/unusual-activity up to its first suspension: a cached
\* entry is returned (and refreshed in the background when older than ten
\* minutes); without one the quick scan gathers its ten checks
UnusualActivityRequest(r) ==
    /\ quick_pc[r] = "idle"
    /\ IF uoa_cache.status # "none"
       THEN /\ quick_pc' = [quick_pc EXCEPT ![r] = "done"]
            /\ \E older_than_ten_minutes \in BOOLEAN :
                  scan_pc' = IF older_than_ten_minutes THEN Schedule(r) ELSE scan_pc
       ELSE /\ quick_pc' = [quick_pc EXCEPT ![r] = "quick"]
            /\ UNCHANGED scan_pc
    /\ UNCHANGED <<scanning_in_progress, fetch_chunk, fetch_pending, uoa_cache>>
    /\ UNCHANGED <<cacheVars, rlVars, batchVars, btInput, btVars, httpVars, pyVars,
                   sectorVars, mwVars>>

\* the gather of the quick scan returns: "await set_cache(cache_key, result,
\* ttl_seconds=900)" with status 'partial', then the full scan is scheduled
QuickScanDone(r) ==
    /\ quick_pc[r] = "quick"
    /\ quick_pc' = [quick_pc EXCEPT ![r] = "done"]
    /\ uoa_cache' = [status |-> "partial", writer |-> r]
    /\ scan_pc' = Schedule(r)
    /\ UNCHANGED <<scanning_in_progress, fetch_chunk, fetch_pending>>
    /\ UNCHANGED <<cacheVars, rlVars, batchVars, btInput, btVars, httpVars, pyVars,
                   sectorVars, mwVars>>

\* a scheduled scan_unusual_activity_background runs up to its first gather,
\* or returns at the guard
ScanStart(r) ==
    /\ scan_pc[r] = "scheduled"
    /\ IF AlreadyScanning(scanning_in_progress)
       THEN /\ scan_pc' = [scan_pc EXCEPT ![r] = "skipped"]
            /\ UNCHANGED <<scanning_in_progress, fetch_chunk, fetch_pending>>
       ELSE /\ scanning_in_progress' = TRUE
            /\ scan_pc' = [scan_pc EXCEPT ![r] = "running"]
            /\ fetch_chunk' = [fetch_chunk EXCEPT ![r] = 1]
            /\ fetch_pending' = [fetch_pending EXCEPT ![r] = Chunk(ScanBatch, 1)]
    /\ UNCHANGED <<quick_pc, uoa_cache>>
    /\ UNCHANGED <<cacheVars, rlVars, batchVars, btInput, btVars, httpVars, pyVars,
                   sectorVars, mwVars>>

\* the last gather of the scan returns: the result is cached with status
\* 'complete'; "finally: _scanning_in_progress = False"
ScanComplete(r) ==
    /\ scan_pc[r] = "running"
    /\ fetch_chunk[r] = NumChunks(ScanBatch)
    /\ AllFinished(fetch_pending[r])
    /\ uoa_cache' = [status |-> "complete", writer |-> r]
    /\ scanning_in_progress' = FALSE
    /\ scan_pc' = [scan_pc EXCEPT ![r] = "done"]
    /\ fetch_chunk' = [fetch_chunk EXCEPT ![r] = @ + 1]
    /\ UNCHANGED <<quick_pc, fetch_pending>>
    /\ UNCHANGED <<cacheVars, rlVars, batchVars, btInput, btVars, httpVars, pyVars,
                   sectorVars, mwVars>>

\* the scan is cancelled at its gather, which cancels the fetches; nothing
\* is cached; "finally: _scanning_in_progress = False"
ScanFails(r) ==
    /\ scan_pc[r] = "running"
    /\ scanning_in_progress' = FALSE
    /\ scan_pc' = [scan_pc EXCEPT ![r] = "failed"]
    /\ fetch_pending' = [fetch_pending EXCEPT ![r] = {}]
    /\ UNCHANGED <<quick_pc, fetch_chunk, uoa_cache>>
    /\ UNCHANGED <<cacheVars, rlVars, batchVars, btInput, btVars, httpVars, pyVars,
                   sectorVars, mwVars>>

\* the 900 seconds of the cached entry run out
EntryExpires ==
    /\ uoa_cache.status # "none"
    /\ uoa_cache' = NoEntry
    /\ UNCHANGED <<scanning_in_progress, scan_pc, quick_pc, fetch_chunk, fetch_pending>>
    /\ UNCHANGED <<cacheVars, rlVars, batchVars, btInput, btVars, httpVars, pyVars,
                   sectorVars, mwVars>>

ScanInit ==
    /\ CacheIdle(0)
    /\ redis_client = "None"
    /\ redis_up = FALSE
    /\ ever_up = FALSE
    /\ RlIdle
    /\ BatchIdle
    /\ bt_request = NoRequest
    /\ bt_provider = <<>>
    /\ BtIdle
    /\ HttpIdle
    /\ PyIdle
    /\ SvcIdle

ScanNext ==
    \/ HeatmapRequest
    \/ \E l \in Loops, i \in 1..NumSymbols : FetchDone(l, i)
    \/ \E l \in Loops : NextChunk(l)
    \/ HeatmapRespond
    \/ \E r \in Requests : UnusualActivityRequest(r)
    \/ \E r \in Requests : QuickScanDone(r)
    \/ \E r \in Requests : ScanStart(r)
    \/ \E r \in Requests : ScanComplete(r)
    \/ \E r \in Requests : ScanFails(r)
    \/ EntryExpires

SpecScan == ScanInit /\ [][ScanNext]_vars

\* ---------------------------------------------------------------------
\* The period cache of stock data (get_comprehensive_stocks_data,
\* main.py:837-1078) and its reader get_comprehensive_sectors_data
\* (main.py:1234-1290).  The list a reader gets is the cached list itself.

\* "'cache_duration': 3600", in ticks of the model
StockCacheDuration == 2

\* a stock dict without the 'weight' key
NoWeight == [num |-> 0, den |-> 0]
Stock(symbol, sector, marketCap) ==
    [symbol |-> symbol, sector |-> sector, marketCap |-> marketCap, weight |-> NoWeight]

\* what the parallel fetch may return: all_stocks_data
FetchedStocks ==
    {<<Stock("AAPL", "Technology", 3), Stock("MSFT", "Technology", 1)>>,
     <<Stock("AAPL", "Technology", 3), Stock("XOM", "Energy", 2)>>,
     <<Stock("AAPL", "Technology", 0), Stock("MSFT", "Technology", 0)>>,
     <<>>}

\* "period_key in _stock_data_cache and ...['data'] is not None and
\*  current_time - ...['timestamp'] < _stock_data_cache['cache_duration']"
StockCacheFresh(entry, t) == entry.cached /\ t - entry.timestamp < StockCacheDuration

\* "_stock_data_cache[period_key]['data'] = all_stocks_data" and the timestamp
StoreStocks(cache, period, all_stocks_data, t) ==
    [cache EXCEPT ![period] = [data |-> all_stocks_data, cached |-> TRUE, timestamp |-> t]]

RECURSIVE SectorCap(_, _)
\* "sum(stock['marketCap'] for stock in sector_stocks)"
SectorCap(stocks, sector) ==
    IF stocks = <<>> THEN 0
    ELSE (IF Head(stocks).sector = sector THEN Head(stocks).marketCap ELSE 0)
         + SectorCap(Tail(stocks), sector)

SectorCount(stocks, sector) == Len(SelectSeq(stocks, LAMBDA s : s.sector = sector))

\* "stock['weight'] = ..." for every stock of every sector: the dicts of
\* the list after the loop
WeightsAssigned(stocks) ==
    [k \in DOMAIN stocks |->
        LET total_market_cap == SectorCap(stocks, stocks[k].sector)
        IN  [stocks[k] EXCEPT
                !.weight = IF total_market_cap > 0
                           THEN Weight(stocks[k].marketCap, total_market_cap)
                           ELSE Weight(1, SectorCount(stocks, stocks[k].sector))]]

\* get_comprehensive_stocks_data(period): the cache after the call
StocksData(period, fetched) ==
    IF StockCacheFresh(stock_data_cache[period], now)
    THEN stock_data_cache
    ELSE StoreStocks(stock_data_cache, period, fetched, now)

\* a handler that only reads the stock list (movers, overview)
GetStocksData(period) ==
    \E fetched \in FetchedStocks :
        /\ stock_data_cache' = StocksData(period, fetched)
        /\ cache_writes' = IF StockCacheFresh(stock_data_cache[period], now)
                           THEN cache_writes ELSE cache_writes + 1
        /\ UNCHANGED <<cacheVars, rlVars, batchVars, btInput, btVars, httpVars, pyVars,
                       scanVars, mwVars>>

\* get_comprehensive_sectors_data(period): the stock list, then the loop
\* that assigns the weights on the dicts of that list
GetSectorsData(period) ==
    \E fetched \in FetchedStocks :
        LET after_read == StocksData(period, fetched)
        IN  /\ stock_data_cache' =
                   [after_read EXCEPT ![period].data = WeightsAssigned(@)]
            /\ cache_writes' = IF StockCacheFresh(stock_data_cache[period], now)
                               THEN cache_writes ELSE cache_writes + 1
            /\ UNCHANGED <<cacheVars, rlVars, batchVars, btInput, btVars, httpVars, pyVars,
                           scanVars, mwVars>>

\* time passes
SectorTick ==
    /\ now < MaxTime
    /\ now' = now + 1
    /\ UNCHANGED <<redis_client, redis_up, ever_up, redis_store, memory_cache, call, last_set>>
    /\ UNCHANGED <<rlVars, batchVars, btInput, btVars, httpVars, pyVars, svcVars>>

SectorInit ==
    /\ CacheIdle(0)
    /\ redis_client = "None"
    /\ redis_up = FALSE
    /\ ever_up = FALSE
    /\ RlIdle
    /\ BatchIdle
    /\ bt_request = NoRequest
    /\ bt_provider = <<>>
    /\ BtIdle
    /\ HttpIdle
    /\ PyIdle
    /\ SvcIdle

SectorNext ==
    \/ \E period \in Periods : GetStocksData(period)
    \/ \E period \in Periods : GetSectorsData(period)
    \/ SectorTick

SpecSectors == SectorInit /\ [][SectorNext]_vars

\* ---------------------------------------------------------------------
\* ClientRateLimitMiddleware (main.py:152-205).  dispatch runs from its
\* first line to "await call_next(request)" without suspending.

\* "max_requests=100, window_seconds=60", scaled down
max_requests == 2
window_seconds == 2

\* "if current_time - ts < self.window_seconds"
InWindow(ts, current_time) == current_time - ts < window_seconds

\* a limit that lets one request too many through
LimitExceededLate(n) == n > max_requests
\* "if len(self.requests[client_ip]) >= self.max_requests"
LimitExceeded(n) == n >= max_requests

\* "self.requests[client_ip] = [ts for ts in self.requests[client_ip] if ...]",
\* after "if client_ip not in self.requests: self.requests[client_ip] = []"
Pruned(requests, client_ip, current_time) ==
    IF client_ip \in DOMAIN requests
    THEN SelectSeq(requests[client_ip], LAMBDA ts : InWindow(ts, current_time))
    ELSE <<>>

\* self.requests with the list of one IP replaced
WithList(requests, client_ip, list) ==
    [ip \in DOMAIN requests \cup {client_ip} |->
        IF ip = client_ip THEN list ELSE requests[ip]]

\* _cleanup(current_time): the IPs without a timestamp in the window go
Cleanup(requests, current_time) ==
    [ip \in {i \in DOMAIN requests :
                \E k \in DOMAIN requests[i] : InWindow(requests[i][k], current_time)}
        |-> requests[ip]]

\* dispatch(request, call_next) for a request of client_ip
MwDispatch(client_ip) ==
    LET current_time == now
        pruned == Pruned(mw_requests, client_ip, current_time)
    IN  /\ IF LimitExceeded(Len(pruned))
           THEN /\ mw_requests' = WithList(mw_requests, client_ip, pruned)
                /\ mw_last' = [ip |-> client_ip, status |-> 429, forwarded |-> FALSE,
                               at |-> current_time]
                /\ UNCHANGED mw_admitted
           ELSE /\ \E cleanup \in BOOLEAN :
                      LET recorded == WithList(mw_requests, client_ip,
                                               Append(pruned, current_time))
                      IN  mw_requests' = IF cleanup THEN Cleanup(recorded, current_time)
                                         ELSE recorded
                /\ mw_admitted' = [mw_admitted EXCEPT ![client_ip] = Append(@, current_time)]
                /\ mw_last' = [ip |-> client_ip, status |-> 200, forwarded |-> TRUE,
                               at |-> current_time]
        /\ UNCHANGED <<cacheVars, rlVars, batchVars, btInput, btVars, httpVars, pyVars,
                       scanVars, sectorVars>>

\* time passes
MwTick ==
    /\ now < MaxTime
    /\ now' = now + 1
    /\ UNCHANGED <<redis_client, redis_up, ever_up, redis_store, memory_cache, call, last_set>>
    /\ UNCHANGED <<rlVars, batchVars, btInput, btVars, httpVars, pyVars, svcVars>>

MwInit ==
    /\ CacheIdle(0)
    /\ redis_client = "None"
    /\ redis_up = FALSE
    /\ ever_up = FALSE
    /\ RlIdle
    /\ BatchIdle
    /\ bt_request = NoRequest
    /\ bt_provider = <<>>
    /\ BtIdle
    /\ HttpIdle
    /\ PyIdle
    /\ SvcIdle

MwNext ==
    \/ \E client_ip \in ClientIps : MwDispatch(client_ip)
    \/ MwTick

SpecMiddleware == MwInit /\ [][MwNext]_vars

\* ---- end of the model ----

----------------------------------------------------------------------------
(* The cache layer as a state machine *)

CacheInit ==
    /\ now = 0
    /\ redis_client \in {"None", "client"}
    /\ redis_up \in BOOLEAN
    /\ ever_up = (redis_client = "client" /\ redis_up)
    /\ redis_store = <<>>
    /\ memory_cache = <<>>
    /\ call = NoCall
    /\ last_set = <<>>
    /\ RlIdle
    /\ BatchIdle
    /\ BtIdle
    /\ HttpIdle
    /\ PyIdle
    /\ SvcIdle
    /\ bt_request = NoRequest
    /\ bt_provider = <<>>

\* the clock advances between calls
Tick ==
    /\ now < MaxTime
    /\ now' = now + 1
    /\ call' = NoCall
    /\ UNCHANGED <<redis_client, redis_up, ever_up, redis_store, memory_cache, last_set>>
    /\ UNCHANGED <<rlVars, batchVars, btInput, httpVars, pyVars, svcVars, btVars>>

\* the Redis server becomes reachable or unreachable between calls
RedisFlip ==
    /\ redis_client = "client"
    /\ redis_up' = ~redis_up
    /\ ever_up' = TRUE
    /\ call' = NoCall
    /\ UNCHANGED <<now, redis_client, redis_store, memory_cache, last_set>>
    /\ UNCHANGED <<rlVars, batchVars, btInput, httpVars, pyVars, svcVars, btVars>>

SetCache(key, data, ttl) ==
    LET r == set_cache(redis_client, redis_up, redis_store, memory_cache,
                       key, data, ttl, now)
    IN  /\ redis_store' = r.store
        /\ memory_cache' = r.mem
        /\ call' = [NoCall EXCEPT !.op = "set", !.key = key, !.data = data,
                                  !.ttl = ttl, !.path = r.path,
                                  !.raised = r.raised]
        /\ last_set' = [k \in DOMAIN last_set \cup {key} |->
                          IF k = key
                          THEN [data |-> data, time |-> now, ttl |-> ttl, path |-> r.path]
                          ELSE last_set[k]]
        /\ UNCHANGED <<now, redis_client, redis_up, ever_up>>
        /\ UNCHANGED <<rlVars, batchVars, btInput, httpVars, pyVars, svcVars, btVars>>

GetCache(key) ==
    LET r == get_cache(redis_client, redis_up, redis_store, memory_cache, key, now)
        after == call.op = "set" /\ call.key = key /\ ~call.raised
    IN  /\ memory_cache' = r.mem
        /\ call' = [NoCall EXCEPT !.op = "get", !.key = key,
                                  !.path = r.path, !.value = r.value,
                                  !.raised = r.raised,
                                  !.follows_set = after,
                                  !.data = IF after THEN call.data ELSE PyNone,
                                  !.set_path = IF after THEN call.path ELSE "none",
                                  !.mem_before =
                                      MemoryLookup(memory_cache, key, now).value]
        /\ UNCHANGED <<now, redis_client, redis_up, ever_up, redis_store, last_set>>
        /\ UNCHANGED <<rlVars, batchVars, btInput, httpVars, pyVars, svcVars, btVars>>

CacheNext ==
    \/ Tick
    \/ RedisFlip
    \/ \E key \in CacheKeys, data \in CacheValues, ttl \in Ttls : SetCache(key, data, ttl)
    \/ \E key \in CacheKeys : GetCache(key)

SpecCache == CacheInit /\ [][CacheNext]_vars

----------------------------------------------------------------------------
(* Claims about the cache layer, checked under SpecCache *)

\* the shared backend has been unavailable for every call so far
SharedUnavailable == redis_client = "None" \/ ~ever_up

\* C1: with the shared backend unavailable, a get_cache(key) at a time
\* t >= (time of the most recent set_cache(key, v, ttl)) + ttl returns None.
C1_ExpiredReadIsMiss ==
    (/\ call.op = "get"
     /\ SharedUnavailable
     /\ call.key \in DOMAIN last_set
     /\ now >= last_set[call.key].time + last_set[call.key].ttl)
    => call.value = PyNone

\* a read at the expiry time itself, answered None, the entry evicted
C1_Witness ==
    /\ call.op = "get"
    /\ SharedUnavailable
    /\ call.key \in DOMAIN last_set
    /\ now = last_set[call.key].time + last_set[call.key].ttl
    /\ call.value = PyNone
    /\ call.key \notin DOMAIN memory_cache

\* C2: set_cache(key, v, ttl) followed immediately by get_cache(key) returns
\* the JSON round trip of v, both when Redis serves both calls and when the
\* in-process map serves both calls.
C2_RoundTripBothPaths ==
    (/\ call.op = "get"
     /\ call.follows_set
     /\ call.set_path = call.path
     /\ Serializable(call.data))
    => call.value = JsonRoundTrip(call.data)

\* C3: a get_cache that returns a value returns the value of the most recent
\* set_cache for that key (as stored, or after its JSON round trip), never an
\* older value left in the other backend.
C3_LastWriterWins ==
    (call.op = "get" /\ call.value # PyNone)
    => /\ call.key \in DOMAIN last_set
       /\ call.value \in {last_set[call.key].data,
                          JsonRoundTrip(last_set[call.key].data)}

\* C4: get_cache and set_cache never raise; a set_cache whose Redis write
\* did not happen stores (value, now + ttl) in the in-process map, and a
\* get_cache whose Redis read did not happen answers from the in-process map.
C4_NeverRaisesAndFallsBack ==
    /\ ~call.raised
    /\ (call.op = "set" /\ SetAttempt(redis_client, redis_up, call.data) # "stored")
       => /\ call.key \in DOMAIN memory_cache
          /\ memory_cache[call.key] = [data |-> call.data, expiration |-> now + call.ttl]
    /\ (call.op = "get"
        /\ GetAttempt(redis_client, redis_up, redis_store, call.key, now)
             \in {"skipped", "ConnectionError"})
       => call.value = call.mem_before

\* a set_cache of a value json.dumps rejects, with a Redis client configured,
\* lands in the in-process map
C4_Witness ==
    /\ call.op = "set"
    /\ redis_client = "client"
    /\ call.data = PyCyclic
    /\ call.key \in DOMAIN memory_cache
    /\ memory_cache[call.key].data = PyCyclic

----------------------------------------------------------------------------
(* Claims about the batch quote handler, checked under SpecBatch *)

----------------------------------------------------------------------------
(* Claims about the throttled retry path, checked under SpecRetry *)

\* C6: any two consecutive returns from smart_rate_limit are at least
\* RATE_LIMIT_DELAY + 5 seconds apart, for any interleaving of callers.
C6_ReturnsSpacedApart ==
    \A i \in 2..Len(rl_returns) :
        rl_returns[i] - rl_returns[i - 1] >= RATE_LIMIT_DELAY + JitterMin

\* C7: fetch_with_retry invokes func at most MAX_RETRIES times, each time
\* right after one pass through smart_rate_limit; it returns the result of
\* the first successful invocation and invokes nothing after it; it raises
\* the exception of the last invocation when all fail; and it sleeps a
\* backoff of at least BASE_BACKOFF * 2^attempt + 3 after a failed
\* invocation only when another invocation follows.
C7_BoundedRetry ==
    \A c \in Callers :
        LET h == rl_hist[c]
            n == Len(h.invocations)
        IN  /\ n <= MAX_RETRIES
            /\ h.passes = n + (IF rl_pc[c] = "invoking" THEN 1 ELSE 0)
            /\ \A i \in 1..(n - 1) : h.invocations[i] = "fail"
            /\ rl_pc[c] = "returned"
               => /\ n >= 1
                  /\ h.invocations[n] = "ok"
                  /\ rl_result[c] = [kind |-> "return", of |-> n]
                  /\ Len(h.backoffs) = n - 1
            /\ rl_pc[c] = "raised"
               => /\ n = MAX_RETRIES
                  /\ h.invocations[n] = "fail"
                  /\ rl_result[c] = [kind |-> "raise", of |-> n]
                  /\ Len(h.backoffs) = n - 1
            /\ rl_pc[c] = "backoff" => n < MAX_RETRIES /\ h.invocations[n] = "fail"
            /\ rl_pc[c] \in {"idle", "rl_sleep", "invoking", "backoff"}
               => rl_result[c] = NoResult
            /\ \A i \in 1..Len(h.backoffs) :
                  h.backoffs[i] >= BASE_BACKOFF * Pow2(i - 1) + BackoffJitterMin

\* a caller whose two invocations both failed: one backoff, then the raise
C7_Witness ==
    \E c \in Callers :
        /\ rl_pc[c] = "raised"
        /\ rl_hist[c].invocations = <<"fail", "fail">>
        /\ rl_hist[c].passes = 2
        /\ Len(rl_hist[c].backoffs) = 1

----------------------------------------------------------------------------
(* Claims about the backtesting handler, checked under SpecBacktest *)

\* the positions of the requested symbols whose fetch returned data
ReturnedData ==
    {k \in 1..Len(bt_request.symbols) :
        fetch_full_history(bt_provider, bt_request.symbols[k]).present}

\* the dates those symbols share
SharedDates ==
    {d \in 1..MaxDate :
        /\ ReturnedData # {}
        /\ \A k \in ReturnedData :
              d \in HistoryIndex(fetch_full_history(bt_provider, bt_request.symbols[k]))}

\* C8: whenever the symbols that returned data share fewer than 50 common
\* dates, the handler answers HTTP 400 and runs no step of the strategy loop.
C8_TooFewDatesIsClientError ==
    Cardinality(SharedDates) < MinCommonDates
    => /\ bt_pc # "loop"
       /\ bt_i = 0
       /\ portfolio_values = <<>>
       /\ trade_log = <<>>
       /\ bt_pc = "done" => bt_response.status = 400

\* two symbols with data whose histories overlap on 49 days only
C8_Witness ==
    /\ bt_pc = "done"
    /\ Len(stock_data) = 2
    /\ Cardinality(SharedDates) = MinCommonDates - 1
    /\ bt_response.status = 400
    /\ bt_response.detail = "Insufficient overlapping historical data"

RequestWeight(sym) ==
    EffectiveWeights(bt_request)[
        CHOOSE k \in 1..Len(bt_request.symbols) : bt_request.symbols[k] = sym]

\* C10: with buy-and-hold, trades occur only on the first active date, and
\* on that date each symbol that has data is bought with
\* floor(w * C / price) shares, C the cash at the start of that date and w
\* the input weight of that same symbol.
C10_BuyAndHoldByInputWeights ==
    (bt_request.strategy = "buy-and-hold" /\ bt_pc \in {"loop", "done"}
     /\ sorted_dates # <<>>)
    => /\ \A t \in 1..Len(trade_log) :
             /\ bt_request.lookback < Len(sorted_dates)
             /\ trade_log[t].date = sorted_dates[bt_request.lookback + 1]
       /\ bt_i > bt_request.lookback
          => \A k \in 1..Len(stock_data) :
                LET sym == stock_data[k].symbol
                    price == Close(stock_data[k].hist,
                                   sorted_dates[bt_request.lookback + 1])
                    w == RequestWeight(sym)
                IN  positions[sym] =
                        IntDiv(bt_request.capital * w.num, w.den * price)

----------------------------------------------------------------------------
(* Claims about the strategy loop, checked under SpecStrategy *)

\* C11: in every state of the backtest loop, whatever the strategy (pairs
\* trading with its simulated short leg included), positions[sym] is a
\* non-negative whole number of shares for every symbol.
C11_PositionsNonNegative ==
    \A sym \in DOMAIN positions : positions[sym] \in Nat

\* pairs trading has taken the branch with the short leg: the spread was too
\* high, the second symbol was bought, the first was not sold
C11_Witness ==
    /\ bt_request.strategy = "pairs-trading"
    /\ Len(stock_data) >= 2
    /\ \E k \in DOMAIN trade_log :
          /\ trade_log[k].action = "BUY"
          /\ trade_log[k].symbol = stock_data[2].symbol
    /\ positions[stock_data[1].symbol] = 0
    /\ positions[stock_data[2].symbol] > 0

----------------------------------------------------------------------------
(* Claims about routing and the GET handlers, checked under SpecHttp *)

\* the (period, interval) table of the contract
ContractTable ==
    ("1D" :> Config("max", "1d")) @@ ("1h" :> Config("730d", "1h")) @@
    ("1m" :> Config("7d", "1m"))

\* C12: both GET /api/chart/{symbol} and GET /api/market/index-chart/{symbol}
\* map the timeframe "1D" to (max, 1d), "1h" to (730d, 1h) and "1m" to
\* (7d, 1m): a chart freshly built by either handler carries that period
\* and interval.
C12_TimeframeTable ==
    (/\ http_pc = "done"
     /\ http_response.handler \in {"get_index_chart_data", "get_chart_data"}
     /\ http_response.status = 200
     /\ http_response.message = <<>>
     /\ ~http_response.cached
     /\ http_request.timeframe \in DOMAIN ContractTable)
    => /\ http_response.period = ContractTable[http_request.timeframe].period
       /\ http_response.interval = ContractTable[http_request.timeframe].interval

\* C13: with first-match dispatch over the routes in registration order, a
\* GET of /api/realtime/batch is handled by the batch handler, never by the
\* single-symbol handler with the symbol bound to "batch".
C13_BatchRoutedFirst ==
    (http_request.method = "GET" /\ http_request.path = <<"api", "realtime", "batch">>)
    => /\ http_pc \in {"idle", "done", "get_batch_realtime_data_v2"}
       /\ http_locals.param # "batch"
       /\ http_pc = "done" => http_response.handler = "get_batch_realtime_data_v2"

\* the batch path has been served, and so has a single-symbol path
C13_Witness ==
    /\ http_request.method = "GET"
    /\ http_request.path = <<"api", "realtime", "batch">>
    /\ http_pc = "done"
    /\ http_response.handler = "get_batch_realtime_data_v2"
    /\ PathMatches(<<"api", "realtime", "{}">>, http_request.path)

\* C14: GET /api/options/chain/{symbol} for a mapped symbol with nothing
\* cached and an empty list of expirations answers 404 with a message that
\* holds the symbol and "No options data available"; the generic exception
\* path does not turn it into a 500, and nothing is written to the cache.
C14_NoExpirationsIs404 ==
    (/\ http_pc = "done"
     /\ http_request.method = "GET"
     /\ PathMatches(<<"api", "options", "chain", "{}">>, http_request.path)
     /\ http_locals.param \in DOMAIN STOCK_SYMBOLS
     /\ ~http_response.cached
     /\ yf_data.expirations = <<>>)
    => /\ http_response.status = 404
       /\ http_response.message =
              <<"No options data available for ", http_locals.param>>
       /\ http_locals.cache_key \notin DOMAIN memory_cache
       /\ redis_store = <<>>

C14_Witness ==
    /\ http_pc = "done"
    /\ http_response.handler = "get_options_chain"
    /\ http_locals.param \in DOMAIN STOCK_SYMBOLS
    /\ yf_data.expirations = <<>>
    /\ http_response.status = 404
    /\ memory_cache = <<>>

----------------------------------------------------------------------------
(* Claims about the Greeks, checked under SpecGreeks *)

\* the default of the function called
GreekDefault ==
    CASE py_call.fn = "calculate_delta" -> DeltaDefault(py_call.args.option_type)
      [] py_call.fn = "calculate_gamma" -> GammaDefault
      [] py_call.fn = "calculate_theta" -> ThetaDefault
      [] OTHER -> VegaDefault

\* C15: for every input (volatility <= 0 or NaN, spot <= 0, strike = 0, a
\* past or unparseable expiration) each of the four Greeks returns a number
\* that is not NaN; for volatility <= 0, spot <= 0 or strike = 0 it is the
\* fixed default (delta 0.5 / -0.5, gamma 0.001, theta -0.05, vega 0.01).
C15_GreeksNeverNaN ==
    py_call.outcome = "returned" =>
        /\ py_call.value.kind = "computed" => py_call.value.float # "nan"
        /\ (\/ py_call.args.sigma \in {"neg", "zero"}
            \/ py_call.args.S \in {"neg", "zero"}
            \/ py_call.args.K = "zero")
           => py_call.value = Sentinel(GreekDefault)

----------------------------------------------------------------------------
(* Claims about portfolio_analytics, checked under SpecPortfolio *)

RECURSIVE SumNum(_)
SumNum(weights) == IF weights = <<>> THEN 0 ELSE Head(weights).num + SumNum(Tail(weights))

\* C16: with price data at hand calculate_portfolio_metrics never raises,
\* whatever weights are supplied (a vector summing to 0 included); it uses
\* them unchanged when their sum is within 0.01 of 1 and otherwise divides
\* each by the sum, so that they sum to 1.
C16_WeightsAcceptedOrNormalized ==
    LET a == py_call.args
        w == a.portfolio_weights.w
        used == py_call.value.weights
    IN  (py_call.outcome = "ended" /\ a.has_data /\ a.portfolio_weights.given)
        => /\ py_call.value.outcome = "returned"
           /\ Len(used) = Len(w)
           /\ IF OutsideTolerance(SumSeq(w))
              THEN /\ \A k \in DOMAIN w : used[k] = Weight(w[k], SumSeq(w))
                   /\ w # <<>> => SumNum(used) = used[1].den
              ELSE \A k \in DOMAIN w : used[k] = Weight(w[k], 100)

\* C17: for valid input (symbols and both dates given, price history at
\* hand) POST /api/portfolio/monte-carlo answers 200 with the result of
\* run_monte_carlo, and every statistics key the function reads was written
\* before.
C17_MonteCarloAnswers ==
    (/\ http_pc = "done"
     /\ http_response.handler = "portfolio_monte_carlo"
     /\ http_request.body.symbols # <<>>
     /\ http_request.body.dates
     /\ ~yf_data.hist_empty)
    => /\ http_response.status = 200
       /\ \A k \in DOMAIN PercentileReads : PercentileReads[k] \in StatisticsKeys

----------------------------------------------------------------------------
(* More claims about the strategy loop *)

\* the first lookback_period common dates
WarmupDates ==
    {sorted_dates[j] : j \in {j \in DOMAIN sorted_dates : j <= bt_request.lookback}}

\* C18: for every strategy, while the loop is in the first lookback_period
\* common dates cash, positions and the trade log stay as they were set up,
\* so no trade-log entry carries a date of that prefix; and when the loop
\* ends the portfolio-value series holds exactly one entry per common date,
\* in chronological order.
C18_WarmupThenOneValuePerDate ==
    /\ (bt_pc = "loop" /\ bt_i <= bt_request.lookback)
       => /\ cash = bt_request.capital
          /\ trade_log = <<>>
          /\ \A sym \in DOMAIN positions : positions[sym] = 0
    /\ \A k \in DOMAIN trade_log : trade_log[k].date \notin WarmupDates
    /\ bt_pc = "loop" => Len(portfolio_values) = bt_i
    /\ (bt_pc = "done" /\ bt_response.status = 200)
       => /\ Len(portfolio_values) = Len(sorted_dates)
          /\ Len(sorted_dates) = Cardinality(CommonDates(stock_data))
          /\ \A j \in DOMAIN sorted_dates :
                /\ sorted_dates[j] \in CommonDates(stock_data)
                /\ j > 1 => sorted_dates[j - 1] < sorted_dates[j]

\* a run with a warmup has ended after trading
C18_Witness ==
    /\ bt_pc = "done"
    /\ bt_response.status = 200
    /\ bt_request.lookback > 0
    /\ bt_request.strategy = "bollinger-bands"
    /\ Len(trade_log) > 1
    /\ Len(portfolio_values) = Len(sorted_dates)

\* stock_data[sym].loc[date, 'Close']
CloseOf(sym, date) ==
    Close(stock_data[CHOOSE k \in DOMAIN stock_data : stock_data[k].symbol = sym].hist, date)

RECURSIVE Replay(_, _, _)
\* the log entries applied in turn to [ok, cash, positions]: a BUY must find
\* the position at 0 and a SELL must be of the whole position; each must
\* carry the date, the close of its symbol, and total = shares * price
Replay(entries, date, st) ==
    IF entries = <<>> THEN st
    ELSE LET e == Head(entries)
             wellFormed ==
                 /\ e.symbol \in DOMAIN st.positions
                 /\ e.date = date
                 /\ e.price = CloseOf(e.symbol, date)
                 /\ e.shares > 0
                 /\ e.total = e.shares * e.price
                 /\ e.action \in {"BUY", "SELL"}
                 /\ e.action = "BUY" => st.positions[e.symbol] = 0
                 /\ e.action = "SELL" => st.positions[e.symbol] = e.shares
         IN  IF ~wellFormed THEN [st EXCEPT !.ok = FALSE]
             ELSE Replay(Tail(entries), date,
                         [ok |-> st.ok,
                          cash |-> IF e.action = "BUY" THEN st.cash - e.total
                                   ELSE st.cash + e.total,
                          positions |-> [st.positions EXCEPT
                                            ![e.symbol] = IF e.action = "BUY"
                                                          THEN e.shares ELSE 0]])

\* C19: every trade is all-or-nothing within its date step: a BUY of n > 0
\* shares takes the position from 0 to n and lowers cash by n * close, a SELL
\* takes the position to 0 and raises cash by held shares * close; each
\* appends one log entry with that symbol, shares, price and total; no entry
\* already in the log is changed or removed; and cash + sum(positions *
\* close) on that date is the same before and after the trades.
C19_TradesAllOrNothing ==
    [][ /\ Len(trade_log') >= Len(trade_log)
        /\ SubSeq(trade_log', 1, Len(trade_log)) = trade_log
        /\ (bt_pc = "loop" /\ Len(portfolio_values') = Len(portfolio_values) + 1)
           => LET date == sorted_dates[bt_i + 1]
                  appended == SubSeq(trade_log', Len(trade_log) + 1, Len(trade_log'))
                  after == Replay(appended, date,
                                  [ok |-> TRUE, cash |-> cash, positions |-> positions])
              IN  /\ after.ok
                  /\ after.cash = cash'
                  /\ after.positions = positions'
                  /\ cash' + HoldingsValue(stock_data, positions', date, 1)
                        = cash + HoldingsValue(stock_data, positions, date, 1)
        /\ ~(bt_pc = "loop" /\ Len(portfolio_values') = Len(portfolio_values) + 1)
           => trade_log' = trade_log
      ]_vars

\* one date step has sold one symbol and bought another
C19_Witness ==
    \E k \in DOMAIN trade_log :
        /\ k + 1 \in DOMAIN trade_log
        /\ trade_log[k].action = "SELL"
        /\ trade_log[k + 1].action = "BUY"
        /\ trade_log[k + 1].date = trade_log[k].date
        /\ trade_log[k + 1].symbol # trade_log[k].symbol

\* C20: every date processed by the loop is present in the price series of
\* every included symbol and in the benchmark series, and the dates are
\* processed in strictly increasing order.
C20_ProcessedDatesInEverySeries ==
    \A j \in 1..Len(portfolio_values) :
        /\ \A k \in DOMAIN stock_data : sorted_dates[j] \in HistoryIndex(stock_data[k].hist)
        /\ benchmark_data.present => sorted_dates[j] \in HistoryIndex(benchmark_data)
        /\ j > 1 => sorted_dates[j - 1] < sorted_dates[j]

\* the symbols of stock_data ranked on a date: those whose slice has
\* lookback + 1 rows
Ranked(date) ==
    {k \in DOMAIN stock_data : HasMomentum(stock_data[k].hist, date, bt_request.lookback)}

\* j stands before k in the ranking by trailing return (ties keep the order
\* of stock_data)
Outranks(j, k, date) ==
    \/ HigherReturn(stock_data[j].hist, stock_data[k].hist, date, bt_request.lookback)
    \/ /\ ~HigherReturn(stock_data[k].hist, stock_data[j].hist, date, bt_request.lookback)
       /\ j < k

\* max(1, floor(N * positionSize))
TopCount(date) ==
    LET scaled == (Cardinality(Ranked(date)) * position_size.num) \div position_size.den
    IN  IF scaled > 1 THEN scaled ELSE 1

\* the symbols held after the last processed date
Held == {k \in DOMAIN stock_data : positions[stock_data[k].symbol] > 0}

C26_CashNeverNegative == cash >= 0

\* the first date of the rolling window that ends on `date`: the last
\* RsiWindow rows of the slice of lookback + 1 rows, less the first row of
\* the slice, whose delta is NaN and counts as 0
WindowFirst(hist, date) ==
    LET slice == TailFirst(hist, date, bt_request.lookback + 1)
    IN  IF date - RsiWindow + 1 > slice + 1 THEN date - RsiWindow + 1 ELSE slice + 1

\* the rolling means of gain and loss exist on `date`
RsiDefined(hist, date) ==
    /\ TailLen(hist, date, bt_request.lookback + 1) >= bt_request.lookback + 1
    /\ TailLen(hist, date, bt_request.lookback + 1) >= RsiWindow

\* RSI = 100 - 100 / (1 + gain / loss) < 30
RsiBelow30(hist, date) ==
    LET gain == SumGains(hist, WindowFirst(hist, date), date)
        loss == SumLosses(hist, WindowFirst(hist, date), date)
    IN  RsiDefined(hist, date) /\ loss > 0 /\ 7 * gain < 3 * loss

\* RSI > 70, where a window with no loss and some gain has RSI = 100
RsiAbove70(hist, date) ==
    LET gain == SumGains(hist, WindowFirst(hist, date), date)
        loss == SumLosses(hist, WindowFirst(hist, date), date)
    IN  /\ RsiDefined(hist, date)
        /\ \/ loss = 0 /\ gain > 0
           \/ loss > 0 /\ 3 * gain > 7 * loss

\* C22: with strategy rsi, on every active date a symbol with zero position
\* is bought when its RSI is below 30 and a held symbol is sold in full when
\* its RSI is above 70, where the RSI of a window whose average loss is 0 and
\* whose average gain is positive counts as 100.
C22_RsiEntryAndExit ==
    [][ (/\ bt_request.strategy = "rsi"
         /\ bt_pc = "loop"
         /\ Len(portfolio_values') = Len(portfolio_values) + 1
         /\ bt_i >= bt_request.lookback)
        => \A k \in DOMAIN stock_data :
              LET sym == stock_data[k].symbol
                  hist == stock_data[k].hist
                  date == sorted_dates[bt_i + 1]
              IN  /\ (positions[sym] = 0 /\ RsiBelow30(hist, date)) => positions'[sym] > 0
                  /\ (positions[sym] > 0 /\ RsiAbove70(hist, date)) => positions'[sym] = 0
      ]_vars

\* C23: in black_litterman_model, for any list of views mixing accepted and
\* skipped views in any order, P, Q and Omega have one row per accepted
\* view, and row j holds a single 1 in the column of the j-th accepted
\* view's asset, that view's expected return in Q[j], and a positive
\* Omega[j][j].
C23_OneRowPerAcceptedView ==
    (/\ py_call.fn = "black_litterman_model"
     /\ py_call.outcome = "ended"
     /\ py_call.value.outcome = "matrices")
    => LET accepted == SelectSeq(py_call.args.views, SingleKnownAsset)
           m == py_call.value
       IN  /\ Len(m.P) = Len(accepted)
           /\ Len(m.Q) = Len(accepted)
           /\ Len(m.Omega) = Len(accepted)
           /\ \A j \in DOMAIN accepted :
                 /\ \A a \in 1..n_assets :
                       m.P[j][a] = IF symbols_list[a] = accepted[j].assets[1] THEN 1 ELSE 0
                 /\ m.Q[j] = accepted[j].expectedReturn
                 /\ m.Omega[j][j] > 0

\* C24: in the chunked fetch paths every symbol belongs to exactly one
\* chunk, no fetch of chunk k+1 starts before every fetch of chunk k has
\* finished, and so at most one chunk's worth of fetches is in flight in a
\* loop at any moment.
C24_ChunksSequential ==
    \A l \in Loops :
        /\ \A i \in 1..NumSymbols :
              Cardinality({k \in 1..NumChunks(ChunkSize(l)) : i \in Chunk(ChunkSize(l), k)}) = 1
        /\ fetch_pending[l] \subseteq Chunk(ChunkSize(l), fetch_chunk[l])
        /\ Cardinality(fetch_pending[l]) <= ChunkSize(l)

\* the heatmap and a scan are both in their second chunk with fetches out
C24_Witness ==
    /\ fetch_chunk["heatmap"] = 2
    /\ fetch_pending["heatmap"] # {}
    /\ \E r \in Requests : fetch_chunk[r] = 2 /\ fetch_pending[r] # {}

\* C27: at most one execution of scan_unusual_activity_background is past
\* its _scanning_in_progress guard at any time, and the flag is False again
\* after every exit of that execution, so a later scan can start.
C27_OneScanAtATime ==
    /\ Cardinality({r \in Requests : scan_pc[r] = "running"}) <= 1
    /\ scanning_in_progress <=> \E r \in Requests : scan_pc[r] = "running"

\* one scan was turned away at the guard, another has ended, and the flag
\* is False
C27_Witness ==
    /\ \E r \in Requests : scan_pc[r] = "skipped"
    /\ \E r \in Requests : scan_pc[r] \in {"done", "failed"}
    /\ ~scanning_in_progress

\* C28: once a full scan has stored its 'complete' result, a quick scan that
\* started before that write does not replace the entry with its 'partial'
\* result while the complete entry is unexpired.
C28_CompleteNotReplacedByPartial ==
    [][uoa_cache.status = "complete" => uoa_cache'.status # "partial"]_vars

\* C25: a value held in a cache changes only by being replaced wholesale by
\* a later write; no operation, get_comprehensive_sectors_data reading the
\* cached stock list included, modifies a stored entry in place.
C25_CachedValueChangesOnlyByWrite ==
    [][stock_data_cache' # stock_data_cache => cache_writes' = cache_writes + 1]_vars

\* the number of entries of a sequence equal to x
Occurrences(seq, x) == Cardinality({k \in DOMAIN seq : seq[k] = x})

\* C29: for every client IP and every instant, the number of requests the
\* middleware has admitted for that IP during the preceding window_seconds
\* is at most max_requests; a request answered with 429 is neither recorded
\* in the IP's timestamp list nor forwarded to a handler.
C29_AdmittedWithinLimit ==
    /\ \A ip \in ClientIps, instant \in 0..now :
          Cardinality({k \in DOMAIN mw_admitted[ip] :
                          /\ mw_admitted[ip][k] <= instant
                          /\ instant - mw_admitted[ip][k] < window_seconds})
              <= max_requests
    /\ \A ip \in DOMAIN mw_requests, t \in 0..now :
          Occurrences(mw_requests[ip], t) <= Occurrences(mw_admitted[ip], t)
    /\ mw_last.status = 429 => ~mw_last.forwarded

\* an IP was refused after being admitted again in a later window
C29_Witness ==
    /\ mw_last.status = 429
    /\ Len(mw_admitted[mw_last.ip]) > max_requests

\* a request path that the route's pattern matches
PathFor(pattern) == [k \in DOMAIN pattern |-> IF pattern[k] = "{}" THEN "AAPLx" ELSE pattern[k]]

\* C30: every (HTTP method, path) pair is registered for exactly one handler,
\* so with first-match dispatch every handler is reached by some request;
\* in particular the second handler registered for POST
\* /api/portfolio/analyze can be reached.
C30_EveryHandlerReachable ==
    \A k \in DOMAIN ROUTES :
        (/\ http_request.method = ROUTES[k].method
         /\ http_request.path = PathFor(ROUTES[k].path))
        => FirstMatch(ROUTES, http_request.method, http_request.path, 1) = k

====
